---- MODULE Spec2Model ----
(***************************************************************************)
(* State-machine model of the editor3d client components:                  *)
(*   - Model3DViewer            (main viewer: model load, clip playback)   *)
(*   - SkeletonReplacerModal    (model load with request-id fencing)       *)
(*   - AutoRiggerModal          (markers, bone synthesis, model load)      *)
(*   - AnimationThumbnailCapture (clip compatibility gate)                 *)
(* Variables are prefixed by component: v_ viewer, r_ replacer,            *)
(* g_ auto-rigger, t_ thumbnail capture, c_ the in-place filter applied    *)
(* on its own.                                                             *)
(* The components share no state; the variable focus names the component   *)
(* instance a behaviour exercises.                                         *)
(***************************************************************************)
EXTENDS Integers, Sequences, FiniteSets, TLC

VARIABLES
  focus,
  \* ---- Model3DViewer
  v_sceneRef, v_isRendererReady, v_modelUrl, v_loadRequestIdRef, v_loads,
  v_scene, v_meshRef, v_disposed, v_done, v_mounted, v_rootBoneRef,
  v_animationUrl, v_animSeq, v_animLoads, v_animDone,
  v_animationMixerRef, v_animationActionRef, v_originalAnimationClipRef,
  v_loadedClip, v_isAnimationPlaying, v_inPlace,
  v_totalFrames, v_currentFrame, v_animationDuration,
  v_pose, v_neutralPoseRef, v_animationEnthusiasm, v_armSpacing, v_closure,
  v_animationSpeed,
  v_initTimer, v_initRetries, v_resizeHandlerRef, v_resizeListeners,
  v_animationFrameRef, v_loops,
  \* ---- SkeletonReplacerModal
  r_isOpen, r_sceneRef, r_isRendererReady, r_modelUrl, r_loadRequestIdRef,
  r_loads, r_scene, r_characterMeshRef, r_disposed, r_done,
  r_openSeq, r_timers, r_created, r_rendererRef, r_renderers,
  r_resizeHandlerRef, r_resizeListeners, r_animationFrameRef, r_loops,
  r_fileTree, r_model, r_skeletonInfo, r_hasSkeletonRemoved, r_isLoading, r_exports,
  r_toast,
  \* ---- AnimationThumbnailCapture
  t_webGLError, t_mountUrl, t_animationUrl, t_meshRef, t_animSeq, t_animLoads,
  t_animDone, t_isReady, t_animationMixerRef, t_animationActionRef,
  t_originalAnimationClipRef, t_rootBoneRef, t_inPlace,
  \* ---- AutoRiggerModal
  g_isOpen, g_modelUrl, g_initPending, g_poll, g_sceneRef, g_rendererRef,
  g_skeletonRef, g_webglError, g_listening, g_loadSeq, g_loads, g_scene,
  g_characterMeshRef, g_currentStep, g_hasSkeletonRemoved, g_markers,
  g_draggedMarkerRef, g_bonesGenerated, g_bonesGroupRef, g_skeletonLines,
  g_clicks, g_lastMove, g_toast,
  g_exports, g_resizeListeners, g_loops,
  g_highlightedMarker, g_highlightTimeoutRef, g_timeouts, g_sinceHighlight,
  g_markerScale, g_isTranslucent, g_opacity,
  \* ---- the in-place filter on drawn inputs
  c_clip, c_rootBone, c_inPlaceClip, c_by

viewerLoadVars == <<v_sceneRef, v_isRendererReady, v_modelUrl, v_loadRequestIdRef,
                    v_loads, v_scene, v_meshRef, v_disposed, v_done, v_mounted,
                    v_rootBoneRef>>
viewerAnimVars == <<v_animationUrl, v_animSeq, v_animLoads, v_animDone,
                    v_animationMixerRef, v_animationActionRef,
                    v_originalAnimationClipRef, v_loadedClip, v_isAnimationPlaying,
                    v_inPlace, v_totalFrames, v_currentFrame, v_animationDuration>>
viewerPoseVars == <<v_pose, v_neutralPoseRef, v_animationEnthusiasm, v_armSpacing,
                    v_closure, v_animationSpeed>>
viewerInitVars == <<v_initTimer, v_initRetries, v_resizeHandlerRef, v_resizeListeners,
                    v_animationFrameRef, v_loops>>
viewerVars == <<viewerLoadVars, viewerAnimVars, viewerPoseVars, viewerInitVars>>
replacerSceneVars == <<r_openSeq, r_timers, r_created, r_rendererRef, r_renderers,
                       r_resizeHandlerRef, r_resizeListeners, r_animationFrameRef,
                       r_loops>>
replacerModelVars == <<r_fileTree, r_model, r_skeletonInfo, r_hasSkeletonRemoved,
                       r_exports, r_toast>>
replacerVars == <<r_isOpen, r_sceneRef, r_isRendererReady, r_modelUrl,
                  r_loadRequestIdRef, r_loads, r_scene, r_characterMeshRef,
                  r_disposed, r_done, r_isLoading, replacerSceneVars,
                  replacerModelVars>>
thumbVars == <<t_webGLError, t_mountUrl, t_animationUrl, t_meshRef, t_animSeq,
               t_animLoads, t_animDone, t_isReady, t_animationMixerRef,
               t_animationActionRef, t_originalAnimationClipRef, t_rootBoneRef,
               t_inPlace>>
riggerLoopVars == <<g_resizeListeners, g_loops>>
riggerTimerVars == <<g_highlightedMarker, g_highlightTimeoutRef, g_timeouts,
                     g_sinceHighlight>>
riggerAuxVars == <<g_exports, riggerLoopVars, riggerTimerVars, g_markerScale>>
riggerLookVars == <<g_isTranslucent, g_opacity>>
riggerVars == <<g_isOpen, g_modelUrl, g_initPending, g_poll, g_sceneRef,
                g_rendererRef, g_skeletonRef, g_webglError, g_listening, g_loadSeq,
                g_loads, g_scene, g_characterMeshRef, g_currentStep,
                g_hasSkeletonRemoved, g_markers, g_draggedMarkerRef,
                g_bonesGenerated, g_bonesGroupRef, g_skeletonLines, g_clicks,
                g_lastMove, g_toast, riggerAuxVars, riggerLookVars>>
clipVars == <<c_clip, c_rootBone, c_inPlaceClip, c_by>>
\* what the actions of one component leave alone
notViewerVars == <<replacerVars, thumbVars, riggerVars, clipVars>>
notReplacerVars == <<viewerVars, thumbVars, riggerVars, clipVars>>
notThumbVars == <<viewerVars, replacerVars, riggerVars, clipVars>>
notRiggerVars == <<viewerVars, replacerVars, thumbVars, clipVars>>
notClipVars == <<viewerVars, replacerVars, thumbVars, riggerVars>>
vars == <<focus, viewerVars, replacerVars, thumbVars, riggerVars, clipVars>>

----------------------------------------------------------------------------
(* Bounds of the model *)

\* load requests one component instance issues in a behaviour
MaxReq == 3
\* clip requests the viewer issues in a behaviour
MaxAnimReq == 1
\* animation requests issued where requests overlap
MaxOverlap == 2
\* model requests of the viewer in the behaviours that follow playback
MaxModelsPlayback == 1
\* marker placements in a behaviour that follows drags
MaxClicks == 2
\* pointer moves of drags in a behaviour
MaxMoves == 1
\* tracks of a clip the in-place filter is applied to
MaxTracks == 3
\* failed attempts of the viewer's initViewer in a behaviour
MaxInitRetries == 7
\* largest bone offset a frame is rendered from
MaxOffset == 2000
\* times the skeleton replacer is opened in a behaviour with retries
MaxOpens == 2
\* nodes of a model the skeleton removal is applied to
MaxTreeNodes == 4
\* exports of the rigger waiting for the exporter at a time
MaxExports == 2
\* scenes the rigger initialises in a behaviour
MaxLoops == 2
\* marker buttons pressed in a behaviour of the whole wizard: two rounds of 13
MaxPlacements == 26

----------------------------------------------------------------------------
(* Strings are sequences of one-character strings, so that the string      *)
(* methods the code calls are computed, not assumed.                       *)

Upper == <<"A","B","C","D","E","F","G","H","I","J","K","L","M",
           "N","O","P","Q","R","S","T","U","V","W","X","Y","Z">>
Lower == <<"a","b","c","d","e","f","g","h","i","j","k","l","m",
           "n","o","p","q","r","s","t","u","v","w","x","y","z">>

\* String.prototype.toLowerCase
toLowerCase(s) ==
  [i \in 1..Len(s) |->
     IF \E k \in 1..Len(Upper) : Upper[k] = s[i]
       THEN Lower[CHOOSE k \in 1..Len(Upper) : Upper[k] = s[i]]
       ELSE s[i]]

\* String.prototype.startsWith
startsWith(s, p) == Len(s) >= Len(p) /\ SubSeq(s, 1, Len(p)) = p

\* String.prototype.includes
includes(s, p) ==
  \E i \in 1..(Len(s) + 1) : i + Len(p) - 1 <= Len(s) /\ SubSeq(s, i, i + Len(p) - 1) = p

\* String.prototype.lastIndexOf for a one-character needle, 1-based; 0 when absent
\* (JavaScript: 0-based, -1 when absent)
lastIndexOf(s, c) ==
  IF \E i \in 1..Len(s) : s[i] = c
    THEN CHOOSE i \in 1..Len(s) : s[i] = c /\ \A j \in (i+1)..Len(s) : s[j] # c
    ELSE 0

\* url.toLowerCase().substring(url.lastIndexOf('.')): the extension with its dot;
\* substring(-1) is substring(0), the whole string
extensionOf(url) ==
  LET k == lastIndexOf(url, ".")
  IN  IF k = 0 THEN toLowerCase(url) ELSE SubSeq(toLowerCase(url), k, Len(url))

\* url.split('.').pop()?.toLowerCase(): the text after the last dot, the whole
\* string when there is no dot
splitPop(url) ==
  LET k == lastIndexOf(url, ".")
  IN  toLowerCase(SubSeq(url, k + 1, Len(url)))

----------------------------------------------------------------------------
(* Asset URLs the parent may hand to a component, and what a loader makes  *)
(* of each                                                                 *)

NoUrl == <<>>
UrlHeroFbx  == <<"h",".","f","b","x">>
UrlRobotGlb == <<"r",".","G","L","B">>
UrlNotesTxt == <<"n",".","t","x","t">>
ModelUrls == {UrlHeroFbx, UrlRobotGlb, UrlNotesTxt}

NoObject == [k |-> "none", r |-> 0]
\* the title of the last toast shown
NoToast == "none"
\* material opacity in thousandths: 1.0 as loaded, 0.3 when translucent
Opaque == 1000
Translucent == 300

\* the object a loader hands to the completion callback of request r
LoadedObject(r) == [k |-> "model", r |-> r]
\* the primitive loadPlaceholder builds during request r
PlaceholderObject(r) == [k |-> "placeholder", r |-> r]

\* bone and track names
mixamorig  == <<"m","i","x","a","m","o","r","i","g">>
Hips       == <<"H","i","p","s">>
HipsTwist  == <<"H","i","p","s","T","w","i","s","t">>
Spine      == <<"S","p","i","n","e">>
LeftArm    == <<"L","e","f","t","A","r","m">>
RightArm   == <<"R","i","g","h","t","A","r","m">>
Prop       == <<"P","r","o","p">>
dotPosition   == <<".","p","o","s","i","t","i","o","n">>
dotQuaternion == <<".","q","u","a","t","e","r","n","i","o","n">>

NoBone == [present |-> FALSE, name |-> <<>>, parentIsBone |-> FALSE]
Bone(name, parentIsBone) == [present |-> TRUE, name |-> name, parentIsBone |-> parentIsBone]

\* the bones of the object a model URL loads to, in traversal order
BonesOf(url) ==
  IF url = UrlHeroFbx
    THEN << Bone(mixamorig \o Hips, FALSE), Bone(mixamorig \o Spine, TRUE),
            Bone(mixamorig \o LeftArm, TRUE), Bone(mixamorig \o RightArm, TRUE) >>
    ELSE << >>

\* the pose of the current model's bones: for every bone its local position
\* and its rotation, an angle in degrees about one axis
NoPose == << >>
\* the pose the bones of a loaded object have
RestPose(bones) ==
  [i \in 1..Len(bones) |-> [bone |-> bones[i], position |-> 10 * i, rotation |-> 5 * i]]
\* quaternion product, as the sum of the angles
Rotate(angle, by) == (angle + by) % 360

NoClip == [present |-> FALSE, name |-> <<>>, duration |-> 0, tracks |-> <<>>]
Clip(name, duration, tracks) ==
  [present |-> TRUE, name |-> name, duration |-> duration, tracks |-> tracks]

UrlWalkFbx  == <<"w",".","f","b","x">>
UrlAlienFbx == <<"a",".","F","B","X">>
UrlEmptyGlb == <<"e",".","g","l","b">>
UrlDanceBvh == <<"d",".","b","v","h">>
AnimUrls == {UrlWalkFbx, UrlAlienFbx, UrlEmptyGlb, UrlDanceBvh}

\* clip durations, in frames of 1/30 s
WalkDuration == 3
AlienDuration == 2

\* the animations array of the object a clip URL loads to
AnimationsOf(url) ==
  IF url = UrlWalkFbx
    THEN << Clip(<<"w","a","l","k">>, WalkDuration,
                 << mixamorig \o Hips \o dotPosition,
                    mixamorig \o Hips \o dotQuaternion,
                    mixamorig \o Spine \o dotPosition,
                    mixamorig \o LeftArm \o dotQuaternion,
                    Prop \o dotQuaternion >>) >>
  ELSE IF url = UrlAlienFbx
    THEN << Clip(<<"a","l","i","e","n">>, AlienDuration,
                 << Hips \o dotPosition, Prop \o mixamorig \o dotQuaternion >>) >>
  ELSE << >>

----------------------------------------------------------------------------
(* Model3DViewer: model loading *)

\* the extensions the viewer's model-load effect hands to a loader
V_supported(url) ==
  extensionOf(url) \in { <<".","f","b","x">>, <<".","g","l","t","f">>,
                         <<".","g","l","b">>, <<".","o","b","j">> }

\* onLoad's and onError's staleness test.  The faulty variant applies every completion.
V_isStaleNever(requestId, current) == FALSE
V_isStale(requestId, current) == requestId # current

\* onLoad's root-bone test: a hips/pelvis/root name on a bone without bone parent
V_isRootCandidate(bone) ==
  LET boneName == toLowerCase(bone.name)
  IN  /\ \/ includes(boneName, <<"h","i","p","s">>)
         \/ includes(boneName, <<"p","e","l","v","i","s">>)
         \/ includes(boneName, <<"r","o","o","t">>)
      /\ ~bone.parentIsBone

\* onLoad's traversal: the first bone that passes the test, or none
V_detectRootBone(bones) ==
  IF \E i \in 1..Len(bones) : V_isRootCandidate(bones[i])
    THEN bones[CHOOSE i \in 1..Len(bones) :
                 /\ V_isRootCandidate(bones[i])
                 /\ \A j \in 1..(i-1) : ~V_isRootCandidate(bones[j])]
    ELSE NoBone

\* the model-load effect; it runs when modelUrl or isRendererReady changes
V_modelLoadEffect(url, sceneOk, ready) ==
  IF ~sceneOk \/ ~ready
    THEN UNCHANGED <<v_loadRequestIdRef, v_loads, v_scene, v_meshRef, v_disposed>>
    ELSE
      LET requestId == v_loadRequestIdRef + 1
          cleared   == v_scene \ {v_meshRef}
      IN  /\ v_loadRequestIdRef' = requestId
          /\ v_disposed' = IF v_meshRef # NoObject THEN v_disposed \cup {v_meshRef}
                                                   ELSE v_disposed
          /\ IF url # NoUrl /\ V_supported(url)
               THEN /\ v_loads' = v_loads \cup {[id |-> requestId, url |-> url]}
                    /\ v_scene' = cleared
                    /\ v_meshRef' = NoObject
               ELSE \* loadPlaceholder
                    /\ v_loads' = v_loads
                    /\ v_scene' = cleared \cup {PlaceholderObject(requestId)}
                    /\ v_meshRef' = PlaceholderObject(requestId)

\* initViewer: the container is available and no scene exists yet; setting
\* isRendererReady re-runs the model-load effect
V_initViewer ==
  /\ focus = "viewer"
  /\ v_mounted
  /\ ~v_sceneRef /\ ~v_isRendererReady
  /\ v_initRetries = 0 \/ v_initTimer
  /\ v_initTimer' = FALSE
  /\ v_sceneRef' = TRUE
  /\ v_isRendererReady' = TRUE
  /\ v_resizeHandlerRef' = TRUE
  /\ v_resizeListeners' = v_resizeListeners + 1
  /\ v_animationFrameRef' = TRUE
  /\ v_loops' = v_loops + 1
  /\ UNCHANGED v_initRetries
  /\ V_modelLoadEffect(v_modelUrl, TRUE, TRUE)
  \* the render loop's animate closes over the state of this render
  /\ v_closure' = [isAnimationPlaying |-> v_isAnimationPlaying,
                   animationEnthusiasm |-> v_animationEnthusiasm,
                   armSpacing |-> v_armSpacing]
  /\ v_pose' = IF v_meshRef' = v_meshRef THEN v_pose ELSE NoPose
  /\ UNCHANGED <<focus, v_animationSpeed, v_modelUrl, v_done, v_mounted, v_rootBoneRef,
                 viewerAnimVars,
                 v_neutralPoseRef, v_animationEnthusiasm, v_armSpacing, notViewerVars>>

\* initViewer finds no container, at the effect's call or when its timer
\* fires: it sets a timer for the next attempt
V_initViewerRetry ==
  /\ focus = "viewer"
  /\ \/ v_mounted /\ ~v_sceneRef /\ ~v_isRendererReady /\ v_initRetries = 0
     \/ v_initTimer
  /\ v_initTimer' = TRUE
  /\ v_initRetries' = v_initRetries + 1
  /\ UNCHANGED <<focus, viewerLoadVars, viewerAnimVars, viewerPoseVars,
                 v_resizeHandlerRef, v_resizeListeners, v_animationFrameRef, v_loops,
                 notViewerVars>>

\* the parent changes the modelUrl prop
V_setModelUrl(url) ==
  /\ focus = "viewer"
  /\ v_mounted
  /\ url # v_modelUrl
  /\ v_loadRequestIdRef < MaxReq
  /\ v_modelUrl' = url
  /\ V_modelLoadEffect(url, v_sceneRef, v_isRendererReady)
  /\ v_pose' = IF v_meshRef' = v_meshRef THEN v_pose ELSE NoPose
  /\ UNCHANGED <<focus, v_animationSpeed, v_sceneRef, v_isRendererReady, v_done,
                 v_mounted, v_rootBoneRef,
                 viewerAnimVars, v_neutralPoseRef, v_animationEnthusiasm, v_armSpacing,
                 v_closure, viewerInitVars,
                 notViewerVars>>

\* the unmount cleanup: the pending frame is cancelled and the resize
\* listener removed; the timer of initViewer stays set
V_unmount ==
  /\ focus = "viewer"
  /\ v_mounted
  /\ v_mounted' = FALSE
  /\ v_sceneRef' = FALSE
  /\ v_isRendererReady' = FALSE
  /\ v_loops' = IF v_animationFrameRef THEN v_loops - 1 ELSE v_loops
  /\ v_resizeListeners' = IF v_resizeHandlerRef THEN v_resizeListeners - 1
                                                ELSE v_resizeListeners
  /\ v_resizeHandlerRef' = FALSE
  /\ UNCHANGED <<focus, v_modelUrl, v_loadRequestIdRef, v_loads, v_scene, v_meshRef,
                 v_disposed, v_done, v_rootBoneRef, viewerAnimVars, viewerPoseVars,
                 v_initTimer, v_initRetries, v_animationFrameRef, notViewerVars>>

\* neutralPoseRef after onLoad's traversal: position and rotation of every bone
V_capturedPose(pose) ==
  [i \in DOMAIN pose |-> [position |-> pose[i].position, rotation |-> pose[i].rotation]]

\* a loader calls onLoad for request l
V_onLoad(l) ==
  /\ focus = "viewer"
  /\ l \in v_loads
  /\ v_loads' = v_loads \ {l}
  /\ v_done' = v_done \cup {[id |-> l.id, cur |-> v_loadRequestIdRef, ok |-> TRUE]}
  /\ IF V_isStale(l.id, v_loadRequestIdRef)
       THEN /\ v_disposed' = v_disposed \cup {LoadedObject(l.id)}
            /\ UNCHANGED <<v_scene, v_meshRef, v_rootBoneRef, v_pose, v_neutralPoseRef>>
       ELSE IF ~v_sceneRef
         THEN UNCHANGED <<v_scene, v_meshRef, v_disposed, v_rootBoneRef, v_pose,
                          v_neutralPoseRef>>
         ELSE /\ v_scene' = v_scene \cup {LoadedObject(l.id)}
              /\ v_meshRef' = LoadedObject(l.id)
              /\ v_rootBoneRef' = V_detectRootBone(BonesOf(l.url))
              /\ v_pose' = RestPose(BonesOf(l.url))
              /\ v_neutralPoseRef' = V_capturedPose(RestPose(BonesOf(l.url)))
              /\ UNCHANGED v_disposed
  /\ UNCHANGED <<focus, v_animationSpeed, v_sceneRef, v_isRendererReady, v_modelUrl,
                 v_loadRequestIdRef,
                 v_mounted, viewerAnimVars, v_animationEnthusiasm, v_armSpacing,
                 v_closure, viewerInitVars,
                 notViewerVars>>

\* a loader calls onError for request l
V_onError(l) ==
  /\ focus = "viewer"
  /\ l \in v_loads
  /\ v_loads' = v_loads \ {l}
  /\ v_done' = v_done \cup {[id |-> l.id, cur |-> v_loadRequestIdRef, ok |-> FALSE]}
  /\ IF V_isStale(l.id, v_loadRequestIdRef) \/ ~v_sceneRef
       THEN UNCHANGED <<v_scene, v_meshRef, v_pose>>
       ELSE \* loadPlaceholder
            /\ v_scene' = v_scene \cup {PlaceholderObject(l.id)}
            /\ v_meshRef' = PlaceholderObject(l.id)
            /\ v_pose' = NoPose
  /\ UNCHANGED <<focus, v_animationSpeed, v_sceneRef, v_isRendererReady, v_modelUrl,
                 v_loadRequestIdRef,
                 v_disposed, v_mounted, v_rootBoneRef, viewerAnimVars, v_neutralPoseRef,
                 v_animationEnthusiasm, v_armSpacing, v_closure, viewerInitVars,
                 notViewerVars>>

----------------------------------------------------------------------------
(* Model3DViewer: clip loading and playback.  Times are counted in frames  *)
(* of 1/30 s.                                                              *)

\* the assumed frame rate
fps == 30

\* a mixer: its root object and the clip request whose completion created it
NoMixer == [present |-> FALSE, root |-> NoObject, src |-> 0]
\* an action: the clip it plays, its time and paused flag; src is the clip request
\* it stems from and made tells which code created the object
NoAction == [present |-> FALSE, clip |-> NoClip, time |-> 0, paused |-> FALSE,
             src |-> 0, made |-> "none"]
NoAnimDone == [id |-> 0, animations |-> <<>>]

\* the extensions the animation-load effect hands to a loader
V_animSupported(url) ==
  extensionOf(url) \in { <<".","f","b","x">>, <<".","g","l","t","f">>,
                         <<".","g","l","b">> }

\* the compatibility gate: clip.tracks.some(track => track.name.startsWith('mixamorig')).
\* The faulty variant asks it of every track.
hasMixamoTracksEvery(clip) ==
  \A i \in 1..Len(clip.tracks) : startsWith(clip.tracks[i], mixamorig)
hasMixamoTracks(clip) ==
  \E i \in 1..Len(clip.tracks) : startsWith(clip.tracks[i], mixamorig)

isRootPositionTrack(trackName, rootBoneName) ==
  includes(trackName, rootBoneName) /\ includes(trackName, dotPosition)

\* createInPlaceClip of the viewer
createInPlaceClip(originalClip, rootBone) ==
  IF ~rootBone.present
    THEN originalClip
    ELSE Clip(originalClip.name \o <<"_","i","n","P","l","a","c","e">>,
              originalClip.duration,
              SelectSeq(originalClip.tracks,
                        LAMBDA t : ~isRootPositionTrack(t, rootBone.name)))

\* the clip an action is made of: inPlace ? createInPlaceClip(clip) : clip.
\* The faulty variant filters whatever the flag says.
V_clipToUseAlwaysFiltered(inPlace, clip, rootBone) == createInPlaceClip(clip, rootBone)
V_clipToUse(inPlace, clip, rootBone) ==
  IF inPlace THEN createInPlaceClip(clip, rootBone) ELSE clip

\* the time the in-place effect gives the new action: reset(), then the time
\* read off the old action.  The faulty variant is the reset without the restore.
V_restoredTimeReset(currentTime) == 0
V_restoredTime(currentTime) == currentTime

\* an action of the viewer: root is the root object of the mixer that made it,
\* orig holds the values its bound properties had when it was activated and
\* accu the values the mixer computed for them last; timeScale is in 500ths,
\* 500 being the 1.0 a new action has
V_NoAction == [present |-> FALSE, clip |-> NoClip, time |-> 0, paused |-> FALSE,
               src |-> 0, made |-> "none", root |-> NoObject, orig |-> << >>,
               accu |-> << >>, timeScale |-> 500]

\* the bone properties a clip animates: a track binds to the property of the
\* bone its name spells
propertySuffix(property) == IF property = "position" THEN dotPosition ELSE dotQuaternion
bindings(clip, pose) ==
  { b \in (DOMAIN pose) \X {"position", "rotation"} :
      \E k \in 1..Len(clip.tracks) :
         clip.tracks[k] = pose[b[1]].bone.name \o propertySuffix(b[2]) }
valueOf(pose, b) == IF b[2] = "position" THEN pose[b[1]].position ELSE pose[b[1]].rotation
\* the pose with the given values written to the given bound properties
written(pose, values, which) ==
  [i \in DOMAIN pose |->
     [pose[i] EXCEPT
        !.position = IF <<i, "position">> \in which THEN values[<<i, "position">>] ELSE @,
        !.rotation = IF <<i, "rotation">> \in which THEN values[<<i, "rotation">>] ELSE @]]

\* the value a clip's track gives a bound property at a clip time
trackValue(b, time) ==
  IF b[2] = "position" THEN 125 * (time + 1) + b[1]
                       ELSE (45 * (time + 1) + b[1]) % 360

\* mixer.clipAction(clip) followed by play(): the action saves the state of
\* the properties it binds under the mixer's root
V_playAction(clip, time, paused, src, made, root) ==
  LET saved == IF root = v_meshRef
                 THEN [b \in bindings(clip, v_pose) |-> valueOf(v_pose, b)]
                 ELSE << >>
  IN  [present |-> TRUE, clip |-> clip, time |-> time, paused |-> paused, src |-> src,
       made |-> made, root |-> root, orig |-> saved, accu |-> saved,
       timeScale |-> 500]

\* action.stop() and mixer.stopAllAction(): the bound properties get their
\* saved state back
stopped(action, pose) ==
  IF action.present /\ action.root = v_meshRef
    THEN written(pose, action.orig, DOMAIN action.orig)
    ELSE pose

\* mixer.update for one frame: a running action moves one frame on, looping;
\* the mixer writes a bound property when the value it computes differs from
\* the one it computed last
mixerUpdate(action, pose) ==
  IF ~action.present
    THEN [action |-> action, pose |-> pose]
    ELSE LET time == IF action.paused THEN action.time
                                      ELSE (action.time + 1) % action.clip.duration
             accu == [b \in DOMAIN action.accu |-> trackValue(b, time)]
             changed == { b \in DOMAIN accu : accu[b] # action.accu[b] }
         IN  [action |-> [action EXCEPT !.time = time, !.accu = accu],
              pose |-> IF action.root = v_meshRef THEN written(pose, accu, changed)
                                                  ELSE pose]

\* the values the sliders take
Controls == {0, 50, 100}

\* the arm angle of an arm-spacing value, in degrees
armAngle(armSpacing) ==
  IF armSpacing < 50 THEN -30 + (armSpacing * 30) \div 50
                     ELSE ((armSpacing - 50) * 60) \div 50

\* the test for an upper-arm bone and for a left arm
isArmBone(name) ==
  LET boneName == toLowerCase(name)
  IN  \/ includes(boneName, <<"s","h","o","u","l","d","e","r">>)
      \/ includes(boneName, <<"u","p","p","e","r","a","r","m">>)
      \/ /\ includes(boneName, <<"a","r","m">>)
         /\ ~includes(boneName, <<"f","o","r","e","a","r","m">>)
         /\ ~includes(boneName, <<"l","o","w","e","r","a","r","m">>)
isLeftArm(name) ==
  LET boneName == toLowerCase(name)
  IN  \/ includes(boneName, <<"l","e","f","t">>)
      \/ includes(boneName, <<"_","l">>)
      \/ includes(boneName, <<"l","_">>)

\* animate's arm-spacing pass: every arm bone of the neutral-pose map gets
\* its present rotation times the arm rotation
applyArmSpacing(pose, neutral, armSpacing) ==
  IF Len(neutral) = 0
    THEN pose
    ELSE [i \in DOMAIN pose |->
            IF i \in DOMAIN neutral /\ isArmBone(pose[i].bone.name)
              THEN [pose[i] EXCEPT
                      !.rotation = Rotate(@, IF isLeftArm(pose[i].bone.name)
                                               THEN armAngle(armSpacing)
                                               ELSE -armAngle(armSpacing))]
              ELSE pose[i]]

\* the enthusiasm factor, in fifths: 0.2 at 0, 1.0 at 50, 2.0 at 100.  The
\* faulty variant starts the lower half at 0.
enthusiasmFactorFromZero(enthusiasm) ==
  IF enthusiasm < 50 THEN (enthusiasm * 5) \div 50
                     ELSE 5 + ((enthusiasm - 50) * 5) \div 50
enthusiasmFactor(enthusiasm) ==
  IF enthusiasm < 50 THEN 1 + (enthusiasm * 4) \div 50
                     ELSE 5 + ((enthusiasm - 50) * 5) \div 50

\* the neutral value moved towards or beyond the present value by the factor
blendPosition(neutral, present, factor) == neutral + ((present - neutral) * factor) \div 5
blendRotation(neutral, present, factor) ==
  LET delta == ((present - neutral + 180) % 360) - 180
  IN  Rotate(neutral, (delta * factor) \div 5)

\* animate's enthusiasm pass: skipped at 50; every bone of the neutral-pose
\* map whose parent is a bone is blended between its neutral and its present
\* pose
applyEnthusiasm(pose, neutral, enthusiasm) ==
  IF enthusiasm = 50 \/ Len(neutral) = 0
    THEN pose
    ELSE [i \in DOMAIN pose |->
            IF i \in DOMAIN neutral /\ pose[i].bone.parentIsBone
              THEN [pose[i] EXCEPT
                      !.rotation = blendRotation(neutral[i].rotation, @,
                                                 enthusiasmFactor(enthusiasm)),
                      !.position = blendPosition(neutral[i].position, @,
                                                 enthusiasmFactor(enthusiasm))]
              ELSE pose[i]]

\* handleClearAnimation's restore: every bone of the mesh found in the
\* neutral-pose map gets its neutral position and rotation.  The faulty
\* variant restores nothing.
restoreNeutralPoseNever(pose, neutral) == pose
restoreNeutralPose(pose, neutral) ==
  IF Len(neutral) = 0
    THEN pose
    ELSE [i \in DOMAIN pose |->
            IF i \in DOMAIN neutral
              THEN [pose[i] EXCEPT !.position = neutral[i].position,
                                   !.rotation = neutral[i].rotation]
              ELSE pose[i]]

\* the sliders' range
Inputs == 0..100

\* handleSpeedChange's time scale of a speed, in 500ths: 0.1 at 0, 1.0 at
\* 50, 3.0 at 100.  The faulty variant gives the upper half the lower
\* half's slope.
timeScaleOfOneSlope(speed) == 50 + 9 * speed
timeScaleOf(speed) ==
  IF speed < 50 THEN 50 + 9 * speed
                ELSE 500 + 20 * (speed - 50)

\* the effect on totalFrames: a speed other than 50 is applied to the action
\* when the frame count changed
speedEffect(action, framesBefore, framesAfter, speed) ==
  IF framesAfter # framesBefore /\ action.present /\ speed # 50
    THEN [action EXCEPT !.timeScale = timeScaleOf(speed)]
    ELSE action

\* the state the notification effect hands to onAnimationStateChange
animationState ==
  [isPlaying |-> v_isAnimationPlaying,
   currentFrame |-> v_currentFrame,
   totalFrames |-> v_totalFrames,
   hasAnimation |-> v_animationUrl # NoUrl /\ v_totalFrames > 0]

\* the animation-load effect; it runs when animationUrl changes
V_setAnimationUrl(url) ==
  /\ focus = "viewer"
  /\ v_mounted
  /\ url # v_animationUrl
  /\ v_animationUrl' = url
  /\ v_animationActionRef' = V_NoAction
  /\ v_pose' = stopped(v_animationActionRef, v_pose)
  /\ v_animationMixerRef' = IF v_animationMixerRef.present /\ v_meshRef # NoObject
                              THEN NoMixer ELSE v_animationMixerRef
  /\ IF url = NoUrl \/ v_meshRef = NoObject \/ ~v_sceneRef
       THEN /\ v_totalFrames' = 0
            /\ v_currentFrame' = 0
            /\ v_animationDuration' = 0
            /\ UNCHANGED <<v_animSeq, v_animLoads>>
       ELSE /\ v_animSeq' = v_animSeq + 1
            /\ v_animLoads' = IF V_animSupported(url)
                                THEN v_animLoads \cup {[id |-> v_animSeq + 1, url |-> url,
                                                        inPlace |-> v_inPlace]}
                                ELSE v_animLoads
            /\ UNCHANGED <<v_totalFrames, v_currentFrame, v_animationDuration>>
  /\ UNCHANGED <<focus, v_animationSpeed, viewerLoadVars, v_animDone,
                 v_originalAnimationClipRef,
                 v_loadedClip, v_isAnimationPlaying, v_inPlace, v_neutralPoseRef,
                 v_animationEnthusiasm, v_armSpacing, v_closure, viewerInitVars,
                 notViewerVars>>

\* a loader calls onAnimationLoad for request l; l.inPlace is the flag the
\* effect's closure captured
V_onAnimationLoad(l) ==
  /\ focus = "viewer"
  /\ l \in v_animLoads
  /\ v_animLoads' = v_animLoads \ {l}
  /\ v_animDone' = [id |-> l.id, animations |-> AnimationsOf(l.url)]
  /\ LET animations == AnimationsOf(l.url)
         mixer == [present |-> TRUE, root |-> v_meshRef, src |-> l.id]
     IN  IF Len(animations) = 0
           THEN UNCHANGED <<v_animationMixerRef, v_animationActionRef,
                            v_originalAnimationClipRef, v_loadedClip,
                            v_isAnimationPlaying, v_totalFrames, v_currentFrame,
                            v_animationDuration>>
         ELSE IF ~hasMixamoTracks(animations[1])
           THEN /\ v_animationMixerRef' = mixer
                /\ UNCHANGED <<v_animationActionRef, v_originalAnimationClipRef,
                               v_loadedClip, v_isAnimationPlaying, v_totalFrames,
                               v_currentFrame, v_animationDuration>>
           ELSE /\ v_animationMixerRef' = mixer
                /\ v_originalAnimationClipRef' = animations[1]
                /\ v_loadedClip' = animations[1]
                /\ v_totalFrames' = (animations[1].duration * fps) \div 30
                /\ v_animationActionRef' =
                     speedEffect(
                       V_playAction(V_clipToUse(l.inPlace, animations[1], v_rootBoneRef),
                                    0, FALSE, l.id, "load", v_meshRef),
                       v_totalFrames, v_totalFrames', v_animationSpeed)
                /\ v_animationDuration' = animations[1].duration
                /\ v_currentFrame' = 0
                /\ v_isAnimationPlaying' = TRUE
  /\ UNCHANGED <<focus, viewerLoadVars, v_animationUrl, v_animSeq, v_inPlace,
                 viewerPoseVars, viewerInitVars,
                 notViewerVars>>

\* a loader calls the animation effect's onError for request l: a toast only
V_onAnimationError(l) ==
  /\ focus = "viewer"
  /\ l \in v_animLoads
  /\ v_animLoads' = v_animLoads \ {l}
  /\ UNCHANGED <<focus, viewerLoadVars, v_animationUrl, v_animSeq, v_animDone,
                 v_animationMixerRef, v_animationActionRef, v_originalAnimationClipRef,
                 v_loadedClip, v_isAnimationPlaying, v_inPlace, v_totalFrames,
                 v_currentFrame, v_animationDuration, viewerPoseVars, viewerInitVars,
                 notViewerVars>>

\* handleToggleAnimation
V_handleToggleAnimation ==
  /\ focus = "viewer"
  /\ v_mounted
  /\ v_animationActionRef.present
  /\ v_animationActionRef' = [v_animationActionRef EXCEPT !.paused = v_isAnimationPlaying]
  /\ v_isAnimationPlaying' = ~v_isAnimationPlaying
  /\ UNCHANGED <<focus, viewerLoadVars, v_animationUrl, v_animSeq, v_animLoads,
                 v_animDone, v_animationMixerRef, v_originalAnimationClipRef,
                 v_loadedClip, v_inPlace, v_totalFrames, v_currentFrame,
                 v_animationDuration, viewerPoseVars, viewerInitVars,
                 notViewerVars>>

\* the paused flag the in-place effect leaves on the new action: play() on a
\* reset action, then paused = true if (!wasPlaying).  The faulty variant
\* lets the new action play in every case.
V_pausedAfterInPlaceNever(wasPlaying) == FALSE
V_pausedAfterInPlace(wasPlaying) == ~wasPlaying

\* handleInPlaceChange and the in-place effect its state change triggers
V_handleInPlaceChange(enabled) ==
  /\ focus = "viewer"
  /\ v_mounted
  /\ enabled # v_inPlace
  /\ v_inPlace' = enabled
  /\ IF /\ v_animationMixerRef.present
        /\ v_originalAnimationClipRef.present
        /\ v_animationActionRef.present
       THEN LET clipToUse == V_clipToUse(enabled, v_originalAnimationClipRef,
                                         v_rootBoneRef)
                restored == stopped(v_animationActionRef, v_pose)
                saved == IF v_animationMixerRef.root = v_meshRef
                           THEN [b \in bindings(clipToUse, restored) |->
                                   valueOf(restored, b)]
                           ELSE << >>
            IN  /\ v_pose' = restored
                /\ v_animationActionRef' =
                     [present |-> TRUE, clip |-> clipToUse,
                      time |-> V_restoredTime(v_animationActionRef.time),
                      paused |-> V_pausedAfterInPlace(v_isAnimationPlaying),
                      src |-> v_animationActionRef.src, made |-> "inPlace",
                      root |-> v_animationMixerRef.root, orig |-> saved, accu |-> saved,
                      timeScale |-> 500]
       ELSE UNCHANGED <<v_animationActionRef, v_pose>>
  /\ UNCHANGED <<focus, v_animationSpeed, viewerLoadVars, v_animationUrl, v_animSeq,
                 v_animLoads,
                 v_animDone, v_animationMixerRef, v_originalAnimationClipRef,
                 v_loadedClip, v_isAnimationPlaying, v_totalFrames, v_currentFrame,
                 v_animationDuration, v_neutralPoseRef, v_animationEnthusiasm,
                 v_armSpacing, v_closure, viewerInitVars,
                 notViewerVars>>

\* handleClearAnimation
V_handleClearAnimation ==
  /\ focus = "viewer"
  /\ v_mounted
  /\ v_animationActionRef' = V_NoAction
  /\ v_originalAnimationClipRef' = NoClip
  /\ v_pose' = LET rest == IF v_animationMixerRef.present
                             THEN stopped(v_animationActionRef, v_pose) ELSE v_pose
               IN  IF v_meshRef # NoObject THEN restoreNeutralPose(rest, v_neutralPoseRef)
                                           ELSE rest
  /\ v_isAnimationPlaying' = FALSE
  /\ v_currentFrame' = 0
  /\ v_totalFrames' = 0
  /\ v_animationDuration' = 0
  /\ UNCHANGED <<focus, v_animationSpeed, viewerLoadVars, v_animationUrl, v_animSeq,
                 v_animLoads,
                 v_animDone, v_animationMixerRef, v_loadedClip, v_inPlace,
                 v_neutralPoseRef, v_animationEnthusiasm, v_armSpacing, v_closure,
                 viewerInitVars,
                 notViewerVars>>

\* handleSpeedChange: the speed is stored; an action gets its time scale
V_handleSpeedChange(speed) ==
  /\ focus = "viewer"
  /\ v_mounted
  /\ v_animationSpeed' = speed
  /\ v_animationActionRef' =
       IF v_animationActionRef.present
         THEN [v_animationActionRef EXCEPT !.timeScale = timeScaleOf(speed)]
         ELSE v_animationActionRef
  /\ UNCHANGED <<focus, viewerLoadVars, v_animationUrl, v_animSeq, v_animLoads,
                 v_animDone, v_animationMixerRef, v_originalAnimationClipRef,
                 v_loadedClip, v_isAnimationPlaying, v_inPlace, v_totalFrames,
                 v_currentFrame, v_animationDuration, v_pose, v_neutralPoseRef,
                 v_animationEnthusiasm, v_armSpacing, v_closure, viewerInitVars,
                 notViewerVars>>

\* handleEnthusiasmChange and handleArmSpacingChange: the state is set
V_handleEnthusiasmChange(enthusiasm) ==
  /\ focus = "viewer"
  /\ v_mounted
  /\ enthusiasm # v_animationEnthusiasm
  /\ v_animationEnthusiasm' = enthusiasm
  /\ UNCHANGED <<focus, v_animationSpeed, viewerLoadVars, viewerAnimVars, v_pose,
                 v_neutralPoseRef,
                 v_armSpacing, v_closure, viewerInitVars,
                 notViewerVars>>

V_handleArmSpacingChange(spacing) ==
  /\ focus = "viewer"
  /\ v_mounted
  /\ spacing # v_armSpacing
  /\ v_armSpacing' = spacing
  /\ UNCHANGED <<focus, v_animationSpeed, viewerLoadVars, viewerAnimVars, v_pose,
                 v_neutralPoseRef,
                 v_animationEnthusiasm, v_closure, viewerInitVars,
                 notViewerVars>>

\* one frame of the render loop, with a mixer and with isAnimationPlaying
\* true in the loop's closure: mixer.update, then the arm-spacing and
\* enthusiasm passes with the closure's values; the frame counter follows
V_animate ==
  /\ focus = "viewer"
  /\ v_sceneRef
  /\ v_animationMixerRef.present
  /\ v_closure.isAnimationPlaying
  /\ LET updated == mixerUpdate(v_animationActionRef, v_pose)
     IN  /\ v_animationActionRef' = updated.action
         /\ v_pose' = applyEnthusiasm(
                         applyArmSpacing(updated.pose, v_neutralPoseRef,
                                         v_closure.armSpacing),
                         v_neutralPoseRef, v_closure.animationEnthusiasm)
         /\ v_currentFrame' = IF updated.action.present
                                THEN (updated.action.time * fps) \div 30
                                ELSE v_currentFrame
  /\ UNCHANGED <<focus, v_animationSpeed, viewerLoadVars, v_animationUrl, v_animSeq,
                 v_animLoads,
                 v_animDone, v_animationMixerRef, v_originalAnimationClipRef,
                 v_loadedClip, v_isAnimationPlaying, v_inPlace, v_totalFrames,
                 v_animationDuration, v_neutralPoseRef, v_animationEnthusiasm,
                 v_armSpacing, v_closure, viewerInitVars,
                 notViewerVars>>

\* the state after the first render; the props are drawn from the given sets
V_Init(modelUrls, animUrls) ==
  /\ v_mounted = TRUE
  /\ v_sceneRef = FALSE
  /\ v_isRendererReady = FALSE
  /\ v_modelUrl \in modelUrls
  /\ v_loadRequestIdRef = 0
  /\ v_loads = {}
  /\ v_scene = {}
  /\ v_meshRef = NoObject
  /\ v_disposed = {}
  /\ v_done = {}
  /\ v_rootBoneRef = NoBone
  /\ v_animationUrl \in animUrls
  /\ v_animSeq = 0
  /\ v_animLoads = {}
  /\ v_animDone = NoAnimDone
  /\ v_animationMixerRef = NoMixer
  /\ v_animationActionRef = V_NoAction
  /\ v_originalAnimationClipRef = NoClip
  /\ v_loadedClip = NoClip
  /\ v_pose = NoPose
  /\ v_neutralPoseRef = NoPose
  /\ v_animationEnthusiasm = 50
  /\ v_armSpacing = 50
  /\ v_animationSpeed = 50
  /\ v_initTimer = FALSE
  /\ v_initRetries = 0
  /\ v_resizeHandlerRef = FALSE
  /\ v_resizeListeners = 0
  /\ v_animationFrameRef = FALSE
  /\ v_loops = 0
  /\ v_closure = [isAnimationPlaying |-> TRUE, animationEnthusiasm |-> 50,
                  armSpacing |-> 50]
  /\ v_isAnimationPlaying = TRUE
  /\ v_inPlace = FALSE
  /\ v_totalFrames = 0
  /\ v_currentFrame = 0
  /\ v_animationDuration = 0

----------------------------------------------------------------------------
(* SkeletonReplacerModal: scene life cycle and model loading *)

\* A model is the sequence of its nodes in traversal order, the root first:
\* the node's type, the position of its parent (0 for the root) and the node
\* of the loaded file it is, or is a copy of.
NodeTypes == {"Group", "Bone", "SkinnedMesh", "Mesh"}
Node(type, parent, orig) == [type |-> type, parent |-> parent, orig |-> orig]

\* the nodes the next node in traversal order can be a child of: the last
\* node and its ancestors
RECURSIVE pathToRoot(_, _)
pathToRoot(tree, i) ==
  IF i = 0 THEN {} ELSE {i} \cup pathToRoot(tree, tree[i].parent)

\* the trees of n nodes under a root Group, as a loader returns them
RECURSIVE TreesOf(_)
TreesOf(n) ==
  IF n = 1 THEN { << Node("Group", 0, 1) >> }
  ELSE UNION { { Append(tree, Node(type, parent, n)) :
                   type \in NodeTypes, parent \in pathToRoot(tree, n - 1) } :
               tree \in TreesOf(n - 1) }
Trees == UNION { TreesOf(n) : n \in 1..MaxTreeNodes }

\* a rigged character file: a bone chain and a skinned surface under the root
HeroTree == << Node("Group", 0, 1), Node("Bone", 1, 2), Node("Bone", 2, 3),
              Node("SkinnedMesh", 1, 4) >>

\* the position of the last descendant of node n
subtreeEnd(tree, n) ==
  CHOOSE e \in n..Len(tree) :
    /\ \A k \in (n + 1)..e : tree[k].parent >= n
    /\ (e = Len(tree) \/ tree[e + 1].parent < n)

\* Object3D.clone() of node n, recursive, added under the root of a model in
\* which the copy of n gets position at
cloneUnderRoot(tree, n, at) ==
  [j \in 1..(subtreeEnd(tree, n) - n + 1) |->
     LET k == n + j - 1 IN
       Node(tree[k].type, IF k = n THEN 1 ELSE at + (tree[k].parent - n), tree[k].orig)]

\* analyzeSkeletonInfo: the bones counted, and whether a skinned mesh exists
analyzeSkeletonInfo(model) ==
  [hasSkeleton |-> \E i \in 1..Len(model) : model[i].type = "SkinnedMesh",
   boneCount |-> Cardinality({i \in 1..Len(model) : model[i].type = "Bone"})]

\* handleRemoveSkeleton's traversal from node n on, cleanModel built so far:
\* a bone is skipped, a skinned mesh gives a new plain mesh, a mesh and a
\* group other than the model itself give their clone(); the traversal goes
\* on into the children of every node
RECURSIVE removeFrom(_, _, _)
removeFrom(tree, n, cleanModel) ==
  IF n > Len(tree) THEN cleanModel
  ELSE LET child == tree[n] IN
    IF child.type = "Bone" THEN removeFrom(tree, n + 1, cleanModel)
    ELSE IF child.type = "SkinnedMesh"
      THEN removeFrom(tree, n + 1, Append(cleanModel, Node("Mesh", 1, child.orig)))
    ELSE IF child.type = "Mesh" \/ (child.type = "Group" /\ n # 1)
      THEN removeFrom(tree, n + 1,
                      cleanModel \o cloneUnderRoot(tree, n, Len(cleanModel) + 1))
    ELSE removeFrom(tree, n + 1, cleanModel)

\* the cleanModel group handleRemoveSkeleton builds from the current model
removeSkeleton(tree) == removeFrom(tree, 1, << Node("Group", 0, tree[1].orig) >>)
\* the object handleRemoveSkeleton puts in place of model o
CleanObject(o) == [k |-> "clean", r |-> o.r]

\* loadModel's extensions with a loader
R_supported(url) ==
  splitPop(url) \in { <<"f","b","x">>, <<"g","l","t","f">>, <<"g","l","b">>,
                      <<"o","b","j">> }

\* loadModel's staleness test after the await.  The faulty variant applies every result.
R_isStaleNever(requestId, current) == FALSE
R_isStale(requestId, current) == requestId # current

\* the model-load effect: it runs when isOpen, modelUrl or isRendererReady change
R_modelLoadEffect(open, url, sceneOk, ready) ==
  IF ~open \/ url = NoUrl \/ ~sceneOk \/ ~ready
    THEN UNCHANGED <<r_loadRequestIdRef, r_loads, r_isLoading>>
    ELSE /\ r_loadRequestIdRef' = r_loadRequestIdRef + 1
         \* loadModel up to its await; without a loader for the extension the
         \* object stays null, nothing is applied and the finally block runs
         /\ r_loads' = IF R_supported(url)
                         THEN r_loads \cup {[id |-> r_loadRequestIdRef + 1, url |-> url]}
                         ELSE r_loads
         /\ r_isLoading' = R_supported(url)

\* what an attempt of initializeScene finds: no canvas, a canvas without
\* layout, a canvas with width and height
CanvasStates == {"missing", "zero", "valid"}

\* initializeScene's retry limit.  The faulty variant never gives up.
MaxRetries == 5
mayRetryAlways(retryCount) == TRUE
mayRetry(retryCount) == retryCount < MaxRetries

\* initializeScene(retryCount) of the chain an open started, pending being
\* the timers still set: without a valid canvas it sets a timer for the next
\* attempt while it may; with a scene it returns; otherwise it creates scene,
\* renderer, render loop and resize listener, numbered by creation
R_initializeScene(chain, retryCount, canvas, pending) ==
  IF canvas # "valid"
    THEN /\ r_timers' = IF mayRetry(retryCount)
                          THEN pending \cup {[chain |-> chain,
                                              retryCount |-> retryCount + 1]}
                          ELSE pending
         /\ UNCHANGED <<r_sceneRef, r_isRendererReady, r_scene, r_created,
                        r_rendererRef, r_renderers, r_resizeHandlerRef,
                        r_resizeListeners, r_animationFrameRef, r_loops>>
  ELSE IF r_sceneRef
    THEN /\ r_timers' = pending
         /\ UNCHANGED <<r_sceneRef, r_isRendererReady, r_scene, r_created,
                        r_rendererRef, r_renderers, r_resizeHandlerRef,
                        r_resizeListeners, r_animationFrameRef, r_loops>>
    ELSE LET n == Len(r_created) + 1
         IN  /\ r_timers' = pending
             /\ r_sceneRef' = TRUE
             /\ r_scene' = {}
             /\ r_created' = Append(r_created, [chain |-> chain, open |-> r_openSeq',
                                                whileOpen |-> r_isOpen'])
             /\ r_rendererRef' = n
             /\ r_renderers' = r_renderers \cup {n}
             /\ r_animationFrameRef' = n
             /\ r_loops' = r_loops \cup {n}
             /\ r_resizeHandlerRef' = n
             /\ r_resizeListeners' = r_resizeListeners \cup {n}
             /\ r_isRendererReady' = TRUE

\* the modal opens: the scene-setup effect makes the first attempt, then the
\* model-load effect runs
R_open(canvas) ==
  /\ focus = "replacer"
  /\ ~r_isOpen
  /\ r_loadRequestIdRef < MaxReq
  /\ r_isOpen' = TRUE
  /\ r_openSeq' = r_openSeq + 1
  /\ R_initializeScene(r_openSeq + 1, 0, canvas, r_timers)
  /\ R_modelLoadEffect(TRUE, r_modelUrl, r_sceneRef', r_isRendererReady')
  /\ UNCHANGED <<focus, r_modelUrl, r_characterMeshRef, r_disposed, r_done,
                 replacerModelVars, notReplacerVars>>

\* a retry timer fires; when the attempt sets isRendererReady the model-load
\* effect runs
R_retry(t, canvas) ==
  /\ focus = "replacer"
  /\ t \in r_timers
  /\ UNCHANGED <<r_isOpen, r_openSeq>>
  /\ R_initializeScene(t.chain, t.retryCount, canvas, r_timers \ {t})
  /\ IF r_isRendererReady' # r_isRendererReady
       THEN R_modelLoadEffect(r_isOpen, r_modelUrl, r_sceneRef', r_isRendererReady')
       ELSE UNCHANGED <<r_loadRequestIdRef, r_loads, r_isLoading>>
  /\ UNCHANGED <<focus, r_modelUrl, r_characterMeshRef, r_disposed, r_done,
                 replacerModelVars, notReplacerVars>>

\* a frame of render loop n: animate asks for its next frame and keeps the
\* request in animationFrameRef
R_animate(n) ==
  /\ focus = "replacer"
  /\ n \in r_loops
  /\ r_animationFrameRef' = n
  /\ UNCHANGED <<focus, r_isOpen, r_sceneRef, r_isRendererReady, r_modelUrl,
                 r_loadRequestIdRef, r_loads, r_scene, r_characterMeshRef,
                 r_disposed, r_done, r_openSeq, r_timers, r_created, r_rendererRef,
                 r_renderers, r_resizeHandlerRef, r_resizeListeners, r_loops,
                 r_isLoading, replacerModelVars, notReplacerVars>>

\* the modal closes: the scene-setup effect's cleanup; retry timers stay set
R_close ==
  /\ focus = "replacer"
  /\ r_isOpen
  /\ r_isOpen' = FALSE
  /\ r_resizeListeners' = r_resizeListeners \ {r_resizeHandlerRef}
  /\ r_resizeHandlerRef' = 0
  /\ r_loops' = r_loops \ {r_animationFrameRef}
  /\ r_renderers' = r_renderers \ {r_rendererRef}
  /\ r_rendererRef' = 0
  /\ r_sceneRef' = FALSE
  /\ r_isRendererReady' = FALSE
  /\ r_scene' = {}
  /\ UNCHANGED <<focus, r_modelUrl, r_loadRequestIdRef, r_loads, r_characterMeshRef,
                 r_disposed, r_done, r_openSeq, r_timers, r_created,
                 r_animationFrameRef, r_isLoading, replacerModelVars,
                 notReplacerVars>>

\* the parent changes the modelUrl prop
R_setModelUrl(url) ==
  /\ focus = "replacer"
  /\ url # r_modelUrl
  /\ r_loadRequestIdRef < MaxReq
  /\ r_modelUrl' = url
  /\ R_modelLoadEffect(r_isOpen, url, r_sceneRef, r_isRendererReady)
  /\ UNCHANGED <<focus, r_isOpen, r_sceneRef, r_isRendererReady, r_scene,
                 r_characterMeshRef, r_disposed, r_done, replacerSceneVars,
                 replacerModelVars, notReplacerVars>>

\* loadAsync of request l resolves: loadModel continues after the await
R_loadResolved(l) ==
  /\ focus = "replacer"
  /\ l \in r_loads
  /\ r_loads' = r_loads \ {l}
  /\ r_done' = r_done \cup {[id |-> l.id, cur |-> r_loadRequestIdRef, ok |-> TRUE]}
  /\ IF R_isStale(l.id, r_loadRequestIdRef)
       THEN /\ r_disposed' = r_disposed \cup {LoadedObject(l.id)}
            /\ UNCHANGED <<r_scene, r_characterMeshRef, r_model, r_skeletonInfo,
                           r_isLoading, r_toast>>
       ELSE /\ r_isLoading' = FALSE
            /\ IF ~r_sceneRef
                 THEN UNCHANGED <<r_scene, r_characterMeshRef, r_disposed, r_model,
                                  r_skeletonInfo, r_toast>>
                 ELSE /\ r_scene' = (r_scene \ {r_characterMeshRef}) \cup {LoadedObject(l.id)}
                      /\ r_characterMeshRef' = LoadedObject(l.id)
                      /\ r_model' = r_fileTree
                      /\ r_skeletonInfo' = analyzeSkeletonInfo(r_fileTree)
                      /\ r_toast' = "Modelo cargado"
                      /\ UNCHANGED r_disposed
  /\ UNCHANGED <<focus, r_isOpen, r_sceneRef, r_isRendererReady, r_modelUrl,
                 r_loadRequestIdRef, r_fileTree, r_hasSkeletonRemoved, r_exports,
                 replacerSceneVars, notReplacerVars>>

\* loadAsync of request l rejects: loadModel's catch block
R_loadRejected(l) ==
  /\ focus = "replacer"
  /\ l \in r_loads
  /\ r_loads' = r_loads \ {l}
  /\ r_done' = r_done \cup {[id |-> l.id, cur |-> r_loadRequestIdRef, ok |-> FALSE]}
  /\ r_isLoading' = IF l.id = r_loadRequestIdRef THEN FALSE ELSE r_isLoading
  /\ r_toast' = IF l.id = r_loadRequestIdRef /\ r_sceneRef
                  THEN "No se pudo cargar el modelo" ELSE r_toast
  /\ UNCHANGED <<focus, r_isOpen, r_sceneRef, r_isRendererReady, r_modelUrl,
                 r_loadRequestIdRef, r_scene, r_characterMeshRef, r_disposed,
                 r_fileTree, r_model, r_skeletonInfo, r_hasSkeletonRemoved,
                 r_exports, replacerSceneVars, notReplacerVars>>

\* the removal button, enabled with a skeleton and no load or export going on
R_handleRemoveSkeleton ==
  /\ focus = "replacer"
  /\ r_isOpen
  /\ ~r_isLoading
  /\ r_skeletonInfo.hasSkeleton
  /\ r_characterMeshRef # NoObject
  /\ IF r_sceneRef
       THEN /\ r_scene' = (r_scene \ {r_characterMeshRef}) \cup {CleanObject(r_characterMeshRef)}
            /\ r_characterMeshRef' = CleanObject(r_characterMeshRef)
            /\ r_model' = removeSkeleton(r_model)
       ELSE UNCHANGED <<r_scene, r_characterMeshRef, r_model>>
  /\ r_skeletonInfo' = analyzeSkeletonInfo(removeSkeleton(r_model))
  /\ r_hasSkeletonRemoved' = TRUE
  /\ r_toast' = "Esqueleto eliminado"
  /\ UNCHANGED <<focus, r_isOpen, r_sceneRef, r_isRendererReady, r_modelUrl,
                 r_loadRequestIdRef, r_loads, r_disposed, r_done, r_isLoading,
                 r_fileTree, r_exports, replacerSceneVars, notReplacerVars>>

\* the export button, enabled with a model and no load or export going on:
\* handleExportModel up to its await
R_handleExportModel ==
  /\ focus = "replacer"
  /\ r_isOpen
  /\ ~r_isLoading
  /\ r_characterMeshRef # NoObject
  /\ r_isLoading' = TRUE
  /\ r_exports' = r_exports + 1
  /\ UNCHANGED <<focus, r_isOpen, r_sceneRef, r_isRendererReady, r_modelUrl,
                 r_loadRequestIdRef, r_loads, r_scene, r_characterMeshRef,
                 r_disposed, r_done, r_fileTree, r_model, r_skeletonInfo,
                 r_hasSkeletonRemoved, r_toast, replacerSceneVars, notReplacerVars>>

\* the exporter calls back: the file is downloaded or the failure reported
R_exportSettled(ok) ==
  /\ focus = "replacer"
  /\ r_exports > 0
  /\ r_exports' = r_exports - 1
  /\ r_isLoading' = FALSE
  /\ r_toast' = IF ok THEN "Modelo exportado" ELSE "No se pudo exportar el modelo"
  /\ UNCHANGED <<focus, r_isOpen, r_sceneRef, r_isRendererReady, r_modelUrl,
                 r_loadRequestIdRef, r_loads, r_scene, r_characterMeshRef,
                 r_disposed, r_done, r_fileTree, r_model, r_skeletonInfo,
                 r_hasSkeletonRemoved, replacerSceneVars, notReplacerVars>>

\* the state after the first render, the modal closed
R_Init(modelUrls, trees) ==
  /\ r_isOpen = FALSE
  /\ r_sceneRef = FALSE
  /\ r_isRendererReady = FALSE
  /\ r_modelUrl \in modelUrls
  /\ r_loadRequestIdRef = 0
  /\ r_loads = {}
  /\ r_scene = {}
  /\ r_characterMeshRef = NoObject
  /\ r_disposed = {}
  /\ r_done = {}
  /\ r_openSeq = 0
  /\ r_timers = {}
  /\ r_created = << >>
  /\ r_rendererRef = 0
  /\ r_renderers = {}
  /\ r_resizeHandlerRef = 0
  /\ r_resizeListeners = {}
  /\ r_animationFrameRef = 0
  /\ r_loops = {}
  /\ r_fileTree \in trees
  /\ r_model = << >>
  /\ r_skeletonInfo = [hasSkeleton |-> FALSE, boneCount |-> 0]
  /\ r_hasSkeletonRemoved = FALSE
  /\ r_isLoading = FALSE
  /\ r_exports = 0
  /\ r_toast = NoToast

----------------------------------------------------------------------------
(* AnimationThumbnailCapture: base model, clip loading, in-place toggle *)

\* the object the base-model load hands over
BaseObject == LoadedObject(0)
\* the bones of the thumbnail's mesh: the base model carries the rig of the
\* hero model, the placeholder carries none
T_bonesOf(mesh) == IF mesh = BaseObject THEN BonesOf(UrlHeroFbx) ELSE << >>

\* loadAnimation dispatches on url.toLowerCase().substring(url.lastIndexOf('.'))
T_animSupported(url) ==
  extensionOf(url) \in { <<".","f","b","x">>, <<".","g","l","t","f">>,
                         <<".","g","l","b">> }

\* the compatibility gate of the thumbnail's onAnimationLoad
T_hasMixamoTracks(clip) ==
  \E i \in 1..Len(clip.tracks) : startsWith(clip.tracks[i], mixamorig)

\* onAnimationLoad's traversal: the first Bone whose name includes 'Hips'
T_findRootBone(bones) ==
  IF \E i \in 1..Len(bones) : includes(bones[i].name, Hips)
    THEN bones[CHOOSE i \in 1..Len(bones) :
                 /\ includes(bones[i].name, Hips)
                 /\ \A j \in 1..(i-1) : ~includes(bones[j].name, Hips)]
    ELSE NoBone

\* createInPlaceClip of the thumbnail component
T_createInPlaceClip(originalClip, rootBone) ==
  IF ~rootBone.present
    THEN originalClip
    ELSE Clip(originalClip.name \o <<"_","I","n","P","l","a","c","e">>,
              originalClip.duration,
              SelectSeq(originalClip.tracks,
                        LAMBDA t : ~isRootPositionTrack(t, rootBone.name)))

\* loadAnimation(url, mesh) called from a render whose inPlace state is inPlace
T_loadAnimation(url, inPlace) ==
  IF T_animSupported(url)
    THEN /\ t_animSeq' = t_animSeq + 1
         /\ t_animLoads' = t_animLoads \cup
                             {[id |-> t_animSeq + 1, url |-> url, inPlace |-> inPlace]}
         /\ UNCHANGED t_isReady
    ELSE /\ t_isReady' = TRUE
         /\ UNCHANGED <<t_animSeq, t_animLoads>>

\* the base-model load of the mount effect completes, with the model or, on
\* error, with the placeholder; its closure holds the props and state of the
\* first render
T_baseLoaded(ok) ==
  /\ focus = "thumb"
  /\ ~t_webGLError
  /\ t_meshRef = NoObject
  /\ t_meshRef' = IF ok THEN BaseObject ELSE PlaceholderObject(0)
  /\ IF t_mountUrl # NoUrl
       THEN T_loadAnimation(t_mountUrl, FALSE)
       ELSE /\ t_isReady' = TRUE
            /\ UNCHANGED <<t_animSeq, t_animLoads>>
  /\ UNCHANGED <<focus, t_webGLError, t_mountUrl, t_animationUrl, t_animDone,
                 t_animationMixerRef, t_animationActionRef,
                 t_originalAnimationClipRef, t_rootBoneRef, t_inPlace, notThumbVars>>

\* the animationUrl prop changes and its effect runs
T_setAnimationUrl(url) ==
  /\ focus = "thumb"
  /\ url # t_animationUrl
  /\ t_animSeq < MaxAnimReq
  /\ t_animationUrl' = url
  /\ IF url # NoUrl /\ t_meshRef # NoObject
       THEN T_loadAnimation(url, t_inPlace)
       ELSE UNCHANGED <<t_animSeq, t_animLoads, t_isReady>>
  /\ UNCHANGED <<focus, t_webGLError, t_mountUrl, t_meshRef, t_animDone,
                 t_animationMixerRef, t_animationActionRef,
                 t_originalAnimationClipRef, t_rootBoneRef, t_inPlace, notThumbVars>>

\* a loader calls onAnimationLoad for request l.  mixer.setTime moves the new
\* action to 30 % of the clip, here in whole frames
T_onAnimationLoad(l) ==
  /\ focus = "thumb"
  /\ l \in t_animLoads
  /\ t_animLoads' = t_animLoads \ {l}
  /\ t_animDone' = [id |-> l.id, animations |-> AnimationsOf(l.url)]
  /\ t_isReady' = TRUE
  /\ LET animations == AnimationsOf(l.url)
         foundRootBone == T_findRootBone(T_bonesOf(t_meshRef))
         rootBone == IF foundRootBone.present THEN foundRootBone ELSE t_rootBoneRef
     IN  IF Len(animations) = 0 \/ ~T_hasMixamoTracks(animations[1])
           THEN UNCHANGED <<t_animationMixerRef, t_animationActionRef,
                            t_originalAnimationClipRef, t_rootBoneRef>>
           ELSE /\ t_rootBoneRef' = rootBone
                /\ t_animationMixerRef' = [present |-> TRUE, root |-> t_meshRef,
                                           src |-> l.id]
                /\ t_originalAnimationClipRef' = animations[1]
                /\ t_animationActionRef' =
                     [present |-> TRUE,
                      clip |-> IF l.inPlace
                                 THEN T_createInPlaceClip(animations[1], rootBone)
                                 ELSE animations[1],
                      time |-> (animations[1].duration * 3) \div 10,
                      paused |-> FALSE, src |-> l.id, made |-> "load"]
  /\ UNCHANGED <<focus, t_webGLError, t_mountUrl, t_animationUrl, t_meshRef,
                 t_animSeq, t_inPlace, notThumbVars>>

\* the in-place checkbox changes and the in-place effect runs
T_setInPlace(checked) ==
  /\ focus = "thumb"
  /\ checked # t_inPlace
  /\ t_inPlace' = checked
  /\ IF /\ t_animationMixerRef.present
        /\ t_originalAnimationClipRef.present
        /\ t_meshRef # NoObject
        /\ t_animationActionRef.present
       THEN t_animationActionRef' =
              [present |-> TRUE,
               clip |-> IF checked
                          THEN T_createInPlaceClip(t_originalAnimationClipRef,
                                                   t_rootBoneRef)
                          ELSE t_originalAnimationClipRef,
               time |-> t_animationActionRef.time,
               paused |-> t_animationActionRef.paused,
               src |-> t_animationActionRef.src, made |-> "inPlace"]
       ELSE UNCHANGED t_animationActionRef
  /\ UNCHANGED <<focus, t_webGLError, t_mountUrl, t_animationUrl, t_meshRef,
                 t_animSeq, t_animLoads, t_animDone, t_isReady, t_animationMixerRef,
                 t_originalAnimationClipRef, t_rootBoneRef, notThumbVars>>

\* one frame of the thumbnail's render loop: mixer.update advances the action
T_animate ==
  /\ focus = "thumb"
  /\ ~t_webGLError
  /\ t_animationMixerRef.present
  /\ t_animationActionRef.present
  /\ ~t_animationActionRef.paused
  /\ t_animationActionRef' =
       [t_animationActionRef EXCEPT
          !.time = (t_animationActionRef.time + 1) % t_animationActionRef.clip.duration]
  /\ UNCHANGED <<focus, t_webGLError, t_mountUrl, t_animationUrl, t_meshRef,
                 t_animSeq, t_animLoads, t_animDone, t_isReady, t_animationMixerRef,
                 t_originalAnimationClipRef, t_rootBoneRef, t_inPlace, notThumbVars>>

T_Init(animUrls, webGLErrors) ==
  /\ t_webGLError \in webGLErrors
  /\ t_mountUrl \in animUrls
  /\ t_animationUrl = t_mountUrl
  /\ t_meshRef = NoObject
  /\ t_animSeq = 0
  /\ t_animLoads = {}
  /\ t_animDone = NoAnimDone
  /\ t_isReady = FALSE
  /\ t_animationMixerRef = NoMixer
  /\ t_animationActionRef = NoAction
  /\ t_originalAnimationClipRef = NoClip
  /\ t_rootBoneRef = NoBone
  /\ t_inPlace = FALSE

----------------------------------------------------------------------------
(* AutoRiggerModal: markers and bone synthesis.  Positions are triples of  *)
(* integers in units of 0.01.                                              *)

\* the markers of the initial state, in their order
MarkerOrder == << "chin", "neckBase", "leftShoulder", "rightShoulder", "leftElbow",
                  "rightElbow", "leftWrist", "rightWrist", "groin", "leftKnee",
                  "rightKnee", "leftAnkle", "rightAnkle" >>
MarkerIds == { MarkerOrder[i] : i \in 1..Len(MarkerOrder) }

\* the letters of the marker ids
MarkerChars ==
  [ chin          |-> <<"c","h","i","n">>,
    neckBase      |-> <<"n","e","c","k","B","a","s","e">>,
    leftShoulder  |-> <<"l","e","f","t","S","h","o","u","l","d","e","r">>,
    rightShoulder |-> <<"r","i","g","h","t","S","h","o","u","l","d","e","r">>,
    leftElbow     |-> <<"l","e","f","t","E","l","b","o","w">>,
    rightElbow    |-> <<"r","i","g","h","t","E","l","b","o","w">>,
    leftWrist     |-> <<"l","e","f","t","W","r","i","s","t">>,
    rightWrist    |-> <<"r","i","g","h","t","W","r","i","s","t">>,
    groin         |-> <<"g","r","o","i","n">>,
    leftKnee      |-> <<"l","e","f","t","K","n","e","e">>,
    rightKnee     |-> <<"r","i","g","h","t","K","n","e","e">>,
    leftAnkle     |-> <<"l","e","f","t","A","n","k","l","e">>,
    rightAnkle    |-> <<"r","i","g","h","t","A","n","k","l","e">>
  ]

\* the positions of the initial state
InitialPosition ==
  [ chin          |-> <<0, 50, 30>>,
    neckBase      |-> <<0, 30, 20>>,
    leftShoulder  |-> <<-50, 30, 10>>,
    rightShoulder |-> <<50, 30, 10>>,
    leftElbow     |-> <<-70, 0, 20>>,
    rightElbow    |-> <<70, 0, 20>>,
    leftWrist     |-> <<-80, -50, 20>>,
    rightWrist    |-> <<80, -50, 20>>,
    groin         |-> <<0, -70, 15>>,
    leftKnee      |-> <<-20, -120, 20>>,
    rightKnee     |-> <<20, -120, 20>>,
    leftAnkle     |-> <<-20, -190, 10>>,
    rightAnkle    |-> <<20, -190, 10>>
  ]

InitialMarkers == [id \in MarkerIds |-> [placed |-> FALSE, position |-> InitialPosition[id]]]

\* markers.findIndex(m => m.id === markerId), 0-based
findIndex(markerId) == (CHOOSE i \in 1..Len(MarkerOrder) : MarkerOrder[i] = markerId) - 1

\* the position handleMarkerClick stages a marker at: x -2.5, y 1.5 - index * 0.3, z 0
stagedPosition(markerId) == << -250, 150 - findIndex(markerId) * 30, 0 >>

\* String.prototype.toUpperCase
toUpperCase(s) ==
  [i \in 1..Len(s) |->
     IF \E k \in 1..Len(Lower) : Lower[k] = s[i]
       THEN Upper[CHOOSE k \in 1..Len(Lower) : Lower[k] = s[i]]
       ELSE s[i]]

\* `mixamorig${id.charAt(0).toUpperCase() + id.slice(1)}`
boneName(markerId) ==
  LET id == MarkerChars[markerId]
  IN  mixamorig \o toUpperCase(SubSeq(id, 1, 1)) \o SubSeq(id, 2, Len(id))

\* the hierarchy table of createBoneHierarchy, read from child to parent
NoParent == "none"
hierarchyParent ==
  [ groin         |-> NoParent,
    neckBase      |-> "groin",
    leftKnee      |-> "groin",
    rightKnee     |-> "groin",
    chin          |-> "neckBase",
    leftShoulder  |-> "neckBase",
    rightShoulder |-> "neckBase",
    leftElbow     |-> "leftShoulder",
    leftWrist     |-> "leftElbow",
    rightElbow    |-> "rightShoulder",
    rightWrist    |-> "rightElbow",
    leftAnkle     |-> "leftKnee",
    rightAnkle    |-> "rightKnee"
  ]

\* Vector3.add and Vector3.sub
VAdd(a, b) == << a[1] + b[1], a[2] + b[2], a[3] + b[3] >>
VSub(a, b) == << a[1] - b[1], a[2] - b[2], a[3] - b[3] >>
Origin == <<0, 0, 0>>

\* childPos.clone().sub(parentPos).  The faulty variant keeps the child's own position.
relativePosAbsolute(childPos, parentPos) == childPos
relativePos(childPos, parentPos) == VSub(childPos, parentPos)

\* parentBone.add(childBone) happens when both markers are placed; a bone
\* belongs to the tree of the groin bone when the additions chain up to it
RECURSIVE attachedToRoot(_, _)
attachedToRoot(markers, id) ==
  /\ markers[id].placed
  /\ \/ id = "groin"
     \/ /\ hierarchyParent[id] # NoParent
        /\ attachedToRoot(markers, hierarchyParent[id])

\* boneMap: createBoneHierarchy makes one bone for every placed marker
boneMap(markers) == { id \in MarkerIds : markers[id].placed }

\* the bones of the tree createBoneHierarchy returns: the created bones that
\* the additions link to the groin bone.  The faulty variant stops at the
\* children of the groin bone.
jointsOfRootOneLevel(markers) ==
  { id \in boneMap(markers) : id = "groin" \/ hierarchyParent[id] = "groin" }
jointsOfRoot(markers) ==
  { id \in boneMap(markers) : attachedToRoot(markers, id) }

\* a bone tree: for every joint its name, parent joint and local position
NoSkeleton == [present |-> FALSE, joints |-> << >>]

\* createBoneHierarchy: null without a groin bone, else the tree of the groin bone
createBoneHierarchy(markers) ==
  IF ~markers["groin"].placed
    THEN NoSkeleton
    ELSE [present |-> TRUE,
          joints |->
            [id \in jointsOfRoot(markers) |->
               [name |-> boneName(id),
                parent |-> hierarchyParent[id],
                position |-> IF id = "groin"
                               THEN markers[id].position
                               ELSE relativePos(markers[id].position,
                                                markers[hierarchyParent[id]].position)]]]

\* updateBonesFromMarkers on the tree: the root follows the groin marker when
\* it is placed, a joint follows its marker when it and its parent are placed
updateBonesFromMarkers(skeleton, markers) ==
  [skeleton EXCEPT !.joints =
     [id \in DOMAIN skeleton.joints |->
        IF id = "groin"
          THEN IF markers[id].placed
                 THEN [skeleton.joints[id] EXCEPT !.position = markers[id].position]
                 ELSE skeleton.joints[id]
          ELSE IF markers[id].placed /\ markers[hierarchyParent[id]].placed
                 THEN [skeleton.joints[id] EXCEPT
                         !.position = relativePos(markers[id].position,
                                                  markers[hierarchyParent[id]].position)]
                 ELSE skeleton.joints[id]]]

\* Object3D.getWorldPosition of a joint of the tree
RECURSIVE getWorldPosition(_, _)
getWorldPosition(skeleton, id) ==
  IF skeleton.joints[id].parent = NoParent
    THEN skeleton.joints[id].position
    ELSE VAdd(getWorldPosition(skeleton, skeleton.joints[id].parent),
              skeleton.joints[id].position)

\* renderSkeletonVisualization: one line per bone whose parent is a bone
skeletonLines(skeleton) ==
  IF ~skeleton.present
    THEN {}
    ELSE { << getWorldPosition(skeleton, skeleton.joints[id].parent),
              getWorldPosition(skeleton, id) >> :
           id \in {j \in DOMAIN skeleton.joints : skeleton.joints[j].parent # NoParent} }

\* handleGenerateBones gives up when createBoneHierarchy returned null.  The
\* faulty variant never gives up.
synthesisFailedNever(rootBone) == FALSE
synthesisFailed(rootBone) == ~rootBone.present

----------------------------------------------------------------------------
(* AutoRiggerModal: scene set-up, model load, wizard steps, marker drag *)

\* the extensions the model-load effect hands to a loader
G_supported(url) ==
  extensionOf(url) \in { <<".","f","b","x">>, <<".","g","l","t","f">>,
                         <<".","g","l","b">>, <<".","o","b","j">> }

\* the group loadPlaceholder stores in characterMeshRef during request r
PlaceholderGroup(r) == [k |-> "group", r |-> r]
\* the copy handleRemoveSkeleton makes of object o
CloneOf(o) == [k |-> "clone", r |-> o.r]
\* the root bone of the generated tree as a child of the scene
RootBoneObject == [k |-> "bones", r |-> 0]

\* the points a drag can hit, on the model's surface or on the drag plane
DragPoints == { <<10, 20, 30>>, <<-40, 0, 5>> }

NoMarker == "none"
NoMove == [seq |-> 0, marker |-> NoMarker, hit |-> "none"]

\* the mouse-listener effect attaches the handlers under this condition
G_listenersAttached(open, renderer, step) ==
  open /\ renderer # "null" /\ step \in {"markers", "adjust"}

\* the faulty variant of the marker-sync effect never runs
G_markerSyncEffectNever(step, generated, markers) ==
  UNCHANGED <<g_bonesGroupRef, g_skeletonLines>>

\* the marker-sync effect: in the adjust step with generated bones the tree
\* follows the markers and the lines are redrawn
G_markerSyncEffect(step, generated, markers) ==
  IF step = "adjust" /\ generated /\ g_bonesGroupRef.present /\ g_skeletonRef
    THEN /\ g_bonesGroupRef' = updateBonesFromMarkers(g_bonesGroupRef, markers)
         /\ g_skeletonLines' = skeletonLines(updateBonesFromMarkers(g_bonesGroupRef, markers))
    ELSE UNCHANGED <<g_bonesGroupRef, g_skeletonLines>>

\* the scale of a marker mesh as it is built, in thousandths
BaseScale == 1000
\* the scales the pulse gives the highlighted marker mesh: 1.6 times 0.8, 1.0, 1.2
PulseScales == {1280, 1600, 1920}
\* the delay of the un-highlight timeout, in seconds
HighlightTimeout == 3

\* window.clearTimeout on the pending timeouts.  The faulty variant clears nothing.
clearTimeoutNot(timeouts, id) == timeouts
clearTimeout(timeouts, id) == {t \in timeouts : t.id # id}
\* the id window.setTimeout returns: one no pending timeout has
setTimeoutId(timeouts) ==
  CHOOSE n \in 1..(Cardinality(timeouts) + 1) : \A t \in timeouts : t.id # n

\* the marker-rendering effect: with marker group and scene it builds the
\* meshes of the placed markers anew
G_renderMarkersEffect ==
  g_markerScale' = IF g_skeletonRef /\ g_sceneRef
                     THEN [id \in MarkerIds |-> BaseScale] ELSE g_markerScale

\* highlightedMarker goes from before to after: the pulse effect's clean-up
\* sets the scale of the meshes of before to 1, then the markers are rendered
G_highlightEffects(before, after) ==
  IF before = after THEN UNCHANGED g_markerScale
  ELSE g_markerScale' =
         IF g_skeletonRef /\ g_sceneRef THEN [id \in MarkerIds |-> BaseScale]
         ELSE IF before # NoMarker /\ g_skeletonRef
           THEN [g_markerScale EXCEPT ![before] = BaseScale]
         ELSE g_markerScale

\* the modal opens: the set-up effect schedules the scene initialisation and
\* the load effect starts polling for the scene
G_open ==
  /\ focus = "rigger"
  /\ ~g_isOpen
  /\ g_loadSeq < MaxReq
  /\ g_isOpen' = TRUE
  /\ g_initPending' = TRUE
  /\ g_poll' = (g_modelUrl # NoUrl)
  /\ g_listening' = G_listenersAttached(TRUE, g_rendererRef, g_currentStep)
  /\ UNCHANGED <<focus, g_modelUrl, g_sceneRef, g_rendererRef, g_skeletonRef,
                 g_webglError, g_loadSeq, g_loads, g_scene, g_characterMeshRef,
                 g_currentStep, g_hasSkeletonRemoved, g_markers, g_draggedMarkerRef,
                 g_bonesGenerated, g_bonesGroupRef, g_skeletonLines, g_clicks,
                 g_lastMove, g_toast, riggerAuxVars,
                 riggerLookVars, notRiggerVars>>

\* the modal closes: the clean-ups clear the timers and dispose the renderer;
\* no ref is cleared
G_close ==
  /\ focus = "rigger"
  /\ g_isOpen
  /\ g_isOpen' = FALSE
  /\ g_initPending' = FALSE
  /\ g_poll' = FALSE
  /\ g_rendererRef' = IF g_rendererRef = "null" THEN "null" ELSE "disposed"
  /\ g_listening' = FALSE
  \* removeEventListener is given a new function, and the frame request is
  \* not cancelled: listener and render loop stay
  /\ UNCHANGED riggerLoopVars
  \* the highlight clean-up effect, then the pulse effect's clean-up and the
  \* marker rendering when a highlight was cleared
  /\ g_timeouts' = clearTimeout(g_timeouts, g_highlightTimeoutRef)
  /\ g_highlightTimeoutRef' = 0
  /\ g_highlightedMarker' = NoMarker
  /\ G_highlightEffects(g_highlightedMarker, NoMarker)
  /\ UNCHANGED g_sinceHighlight
  /\ UNCHANGED <<focus, g_modelUrl, g_sceneRef, g_skeletonRef, g_webglError,
                 g_loadSeq, g_loads, g_scene, g_characterMeshRef, g_currentStep,
                 g_hasSkeletonRemoved, g_markers, g_draggedMarkerRef,
                 g_bonesGenerated, g_bonesGroupRef, g_skeletonLines, g_clicks,
                 g_lastMove, g_toast, g_exports,
                 riggerLookVars, notRiggerVars>>

\* the modelUrl prop changes: the load effect is cleaned up and runs again
G_setModelUrl(url) ==
  /\ focus = "rigger"
  /\ url # g_modelUrl
  /\ g_loadSeq < MaxReq
  /\ g_modelUrl' = url
  /\ g_poll' = (g_isOpen /\ url # NoUrl)
  /\ UNCHANGED <<focus, g_isOpen, g_initPending, g_sceneRef, g_rendererRef,
                 g_skeletonRef, g_webglError, g_listening, g_loadSeq, g_loads,
                 g_scene, g_characterMeshRef, g_currentStep, g_hasSkeletonRemoved,
                 g_markers, g_draggedMarkerRef, g_bonesGenerated, g_bonesGroupRef,
                 g_skeletonLines, g_clicks, g_lastMove, g_toast, riggerAuxVars,
                 riggerLookVars, notRiggerVars>>

\* the 50 ms timeout of the set-up effect fires: without a canvas nothing
\* happens; else a new scene replaces the old one, and the renderer and the
\* marker and skeleton groups follow unless WebGL is missing
G_initScene(outcome) ==
  /\ focus = "rigger"
  /\ g_initPending
  /\ g_initPending' = FALSE
  /\ IF outcome = "nocanvas"
       THEN UNCHANGED <<g_sceneRef, g_rendererRef, g_skeletonRef, g_webglError,
                        g_scene, g_loads, g_skeletonLines, riggerLoopVars,
                        g_markerScale>>
       ELSE /\ g_sceneRef' = TRUE
            /\ g_scene' = {}
            /\ g_loads' = { [l EXCEPT !.sceneCurrent = FALSE] : l \in g_loads }
            /\ IF outcome = "ok"
                 THEN /\ g_rendererRef' = "live"
                      /\ g_webglError' = FALSE
                      /\ g_skeletonRef' = TRUE
                      /\ g_skeletonLines' = {}
                      /\ g_markerScale' = [id \in MarkerIds |-> BaseScale]
                      /\ g_loops' = g_loops + 1
                      /\ g_resizeListeners' = g_resizeListeners + 1
                 ELSE /\ g_webglError' = TRUE
                      /\ UNCHANGED <<g_rendererRef, g_skeletonRef, g_skeletonLines,
                                     riggerLoopVars, g_markerScale>>
  /\ UNCHANGED <<focus, g_isOpen, g_modelUrl, g_poll, g_listening, g_loadSeq,
                 g_characterMeshRef, g_currentStep, g_hasSkeletonRemoved, g_markers,
                 g_draggedMarkerRef, g_bonesGenerated, g_bonesGroupRef, g_clicks,
                 g_lastMove, g_toast, g_exports, riggerTimerVars,
                 riggerLookVars, notRiggerVars>>

\* a tick of the load effect's 100 ms interval that finds scene and renderer:
\* the current model leaves the scene and the load is dispatched; an
\* unsupported extension gets the placeholder at once
G_checkScene ==
  /\ focus = "rigger"
  /\ g_opacity' = IF G_supported(g_modelUrl) THEN g_opacity ELSE Opaque
  /\ g_poll
  /\ ~g_initPending
  /\ g_sceneRef
  /\ g_rendererRef # "null"
  /\ g_poll' = FALSE
  /\ g_loadSeq' = g_loadSeq + 1
  /\ IF G_supported(g_modelUrl)
       THEN /\ g_loads' = g_loads \cup {[id |-> g_loadSeq + 1, url |-> g_modelUrl,
                                         sceneCurrent |-> TRUE]}
            /\ g_scene' = g_scene \ {g_characterMeshRef}
            /\ g_characterMeshRef' = NoObject
       ELSE /\ g_characterMeshRef' = PlaceholderGroup(g_loadSeq + 1)
            /\ g_scene' = g_scene \ {g_characterMeshRef}
            /\ UNCHANGED g_loads
  /\ UNCHANGED <<focus, g_isOpen, g_modelUrl, g_initPending, g_sceneRef,
                 g_rendererRef, g_skeletonRef, g_webglError, g_listening,
                 g_currentStep, g_hasSkeletonRemoved, g_markers, g_draggedMarkerRef,
                 g_bonesGenerated, g_bonesGroupRef, g_skeletonLines, g_clicks,
                 g_lastMove, g_toast, riggerAuxVars,
                 g_isTranslucent, notRiggerVars>>

\* a loader calls onLoad for request l: the object joins the scene the
\* request captured and becomes the current model
G_onLoad(l) ==
  /\ focus = "rigger"
  /\ g_opacity' = Opaque
  /\ l \in g_loads
  /\ g_loads' = g_loads \ {l}
  /\ g_scene' = IF l.sceneCurrent THEN g_scene \cup {LoadedObject(l.id)} ELSE g_scene
  /\ g_characterMeshRef' = LoadedObject(l.id)
  /\ UNCHANGED <<focus, g_isOpen, g_modelUrl, g_initPending, g_poll, g_sceneRef,
                 g_rendererRef, g_skeletonRef, g_webglError, g_listening, g_loadSeq,
                 g_currentStep, g_hasSkeletonRemoved, g_markers, g_draggedMarkerRef,
                 g_bonesGenerated, g_bonesGroupRef, g_skeletonLines, g_clicks,
                 g_lastMove, g_toast, riggerAuxVars,
                 g_isTranslucent, notRiggerVars>>

\* a loader calls onError for request l: loadPlaceholder adds the capsule to
\* the scene and then to a new group, which takes it out of the scene again;
\* the group becomes the current model
G_onError(l) ==
  /\ focus = "rigger"
  /\ g_opacity' = Opaque
  /\ l \in g_loads
  /\ g_loads' = g_loads \ {l}
  /\ g_characterMeshRef' = PlaceholderGroup(l.id)
  /\ UNCHANGED <<focus, g_isOpen, g_modelUrl, g_initPending, g_poll, g_sceneRef,
                 g_rendererRef, g_skeletonRef, g_webglError, g_listening, g_loadSeq,
                 g_scene, g_currentStep, g_hasSkeletonRemoved, g_markers,
                 g_draggedMarkerRef, g_bonesGenerated, g_bonesGroupRef,
                 g_skeletonLines, g_clicks, g_lastMove, g_toast, riggerAuxVars,
                 g_isTranslucent, notRiggerVars>>

\* handleRemoveSkeleton: a bone-free copy replaces the model; then the opacity step
G_handleRemoveSkeleton ==
  /\ focus = "rigger"
  /\ g_isOpen
  /\ g_currentStep = "upload"
  /\ g_characterMeshRef # NoObject
  /\ IF g_sceneRef
       THEN /\ g_scene' = (g_scene \ {g_characterMeshRef}) \cup {CloneOf(g_characterMeshRef)}
            /\ g_characterMeshRef' = CloneOf(g_characterMeshRef)
       ELSE UNCHANGED <<g_scene, g_characterMeshRef>>
  /\ g_hasSkeletonRemoved' = TRUE
  /\ g_toast' = "Esqueleto Eliminado"
  /\ g_currentStep' = "opacity"
  /\ g_listening' = G_listenersAttached(g_isOpen, g_rendererRef, "opacity")
  /\ UNCHANGED <<focus, g_isOpen, g_modelUrl, g_initPending, g_poll, g_sceneRef,
                 g_rendererRef, g_skeletonRef, g_webglError, g_loadSeq, g_loads,
                 g_markers, g_draggedMarkerRef, g_bonesGenerated, g_bonesGroupRef,
                 g_skeletonLines, g_clicks, g_lastMove, riggerAuxVars,
                 riggerLookVars, notRiggerVars>>

\* a wizard button sets the step; the effects that depend on the step run
G_setCurrentStep(step) ==
  /\ g_currentStep' = step
  /\ g_listening' = G_listenersAttached(g_isOpen, g_rendererRef, step)
  /\ G_markerSyncEffect(step, g_bonesGenerated, g_markers)
  /\ UNCHANGED <<focus, g_isOpen, g_modelUrl, g_initPending, g_poll, g_sceneRef,
                 g_rendererRef, g_skeletonRef, g_webglError, g_loadSeq, g_loads,
                 g_scene, g_characterMeshRef, g_markers, g_draggedMarkerRef,
                 g_bonesGenerated, g_clicks, g_lastMove, g_toast, riggerAuxVars,
                 riggerLookVars, notRiggerVars>>

\* the keep-skeleton button of the upload step
G_keepSkeleton ==
  /\ focus = "rigger"
  /\ g_isOpen
  /\ g_currentStep = "upload"
  /\ g_hasSkeletonRemoved' = TRUE
  /\ G_setCurrentStep("adjust")

\* the continue button of the opacity step
G_nextToMarkers ==
  /\ focus = "rigger"
  /\ g_isOpen
  /\ g_currentStep = "opacity"
  /\ UNCHANGED g_hasSkeletonRemoved
  /\ G_setCurrentStep("markers")

\* allMarkersPlaced: markers.every(m => m.placed).  The faulty variant is
\* content with one placed marker.
allMarkersPlacedSome(markers) == \E id \in MarkerIds : markers[id].placed
allMarkersPlaced(markers) == \A id \in MarkerIds : markers[id].placed

\* the continue button of the markers step, disabled until every marker is placed
G_nextToGenerate ==
  /\ focus = "rigger"
  /\ g_isOpen
  /\ g_currentStep = "markers"
  /\ allMarkersPlaced(g_markers)
  /\ UNCHANGED g_hasSkeletonRemoved
  /\ G_setCurrentStep("generate")

\* the continue button of the generate step, shown once bones are generated
G_nextToAdjust ==
  /\ focus = "rigger"
  /\ g_isOpen
  /\ g_currentStep = "generate"
  /\ g_bonesGenerated
  /\ UNCHANGED g_hasSkeletonRemoved
  /\ G_setCurrentStep("adjust")

\* handleToggleTranslucent's newOpacity: isTranslucent ? 1.0 : 0.3
newOpacity(isTranslucent) == IF isTranslucent THEN Opaque ELSE Translucent

\* handleToggleTranslucent, the button of the side panel: every material of
\* the current model gets the new opacity and the flag is inverted
G_handleToggleTranslucent ==
  /\ focus = "rigger"
  /\ g_isOpen
  /\ g_characterMeshRef # NoObject
  /\ g_opacity' = newOpacity(g_isTranslucent)
  /\ g_isTranslucent' = ~g_isTranslucent
  /\ UNCHANGED <<focus, g_isOpen, g_modelUrl, g_initPending, g_poll, g_sceneRef,
                 g_rendererRef, g_skeletonRef, g_webglError, g_listening, g_loadSeq,
                 g_loads, g_scene, g_characterMeshRef, g_currentStep,
                 g_hasSkeletonRemoved, g_markers, g_draggedMarkerRef,
                 g_bonesGenerated, g_bonesGroupRef, g_skeletonLines, g_clicks,
                 g_lastMove, g_toast, riggerAuxVars, notRiggerVars>>

\* a marker button of the markers step on a marker that is not placed:
\* handleMarkerClick stages it
G_handleMarkerClick(markerId) ==
  /\ focus = "rigger"
  /\ g_isOpen
  /\ g_currentStep = "markers"
  /\ ~g_markers[markerId].placed
  /\ g_markers' = [g_markers EXCEPT ![markerId] =
                     [placed |-> TRUE, position |-> stagedPosition(markerId)]]
  /\ g_clicks' = g_clicks + 1
  /\ g_listening' = G_listenersAttached(g_isOpen, g_rendererRef, g_currentStep)
  /\ G_markerSyncEffect(g_currentStep, g_bonesGenerated, g_markers')
  /\ G_renderMarkersEffect
  /\ UNCHANGED <<focus, g_isOpen, g_modelUrl, g_initPending, g_poll, g_sceneRef,
                 g_rendererRef, g_skeletonRef, g_webglError, g_loadSeq, g_loads,
                 g_scene, g_characterMeshRef, g_currentStep, g_hasSkeletonRemoved,
                 g_draggedMarkerRef, g_bonesGenerated, g_lastMove, g_toast, g_exports, riggerLoopVars, riggerTimerVars,
                 riggerLookVars, notRiggerVars>>

\* handleMouseDown with the ray on the mesh of a placed marker
G_handleMouseDown(markerId) ==
  /\ focus = "rigger"
  /\ g_listening
  /\ g_sceneRef
  /\ g_skeletonRef
  /\ g_markers[markerId].placed
  /\ g_draggedMarkerRef' = markerId
  /\ UNCHANGED <<focus, g_isOpen, g_modelUrl, g_initPending, g_poll, g_sceneRef,
                 g_rendererRef, g_skeletonRef, g_webglError, g_listening, g_loadSeq,
                 g_loads, g_scene, g_characterMeshRef, g_currentStep,
                 g_hasSkeletonRemoved, g_markers, g_bonesGenerated, g_bonesGroupRef,
                 g_skeletonLines, g_clicks, g_lastMove, g_toast, riggerAuxVars,
                 riggerLookVars, notRiggerVars>>

\* Ray.intersectPlane(plane, target): the hit point is copied to the target
\* and returned, or null is returned and the target is left as it was
intersectPlane(hit, point, target) ==
  IF hit = "plane" THEN [result |-> "vector", target |-> point]
                   ELSE [result |-> "null", target |-> target]

\* the position handleMouseMove gives the dragged marker: the surface point
\* when the ray hits the model, else the target vector handed to
\* intersectPlane, a new Vector3 that the test `if (intersection)` accepts
\* whatever intersectPlane returned.  The faulty variant projects on the plane
\* in every case.
newPositionOnPlane(hit, point) == intersectPlane(hit, point, Origin).target
newPosition(hit, point) ==
  IF hit = "surface" THEN point ELSE intersectPlane(hit, point, Origin).target

\* handleMouseMove during a drag; hit says what the ray meets: the model's
\* surface, else the drag plane, else neither
G_handleMouseMove(hit, point) ==
  /\ focus = "rigger"
  /\ g_listening
  /\ g_sceneRef
  /\ g_characterMeshRef # NoObject
  /\ g_draggedMarkerRef # NoMarker
  /\ g_lastMove.seq < MaxMoves
  /\ g_lastMove' = [seq |-> g_lastMove.seq + 1, marker |-> g_draggedMarkerRef, hit |-> hit]
  /\ g_markers' = [g_markers EXCEPT ![g_draggedMarkerRef].position = newPosition(hit, point)]
  /\ g_listening' = G_listenersAttached(g_isOpen, g_rendererRef, g_currentStep)
  /\ G_markerSyncEffect(g_currentStep, g_bonesGenerated, g_markers')
  /\ G_renderMarkersEffect
  /\ UNCHANGED <<focus, g_isOpen, g_modelUrl, g_initPending, g_poll, g_sceneRef,
                 g_rendererRef, g_skeletonRef, g_webglError, g_loadSeq, g_loads,
                 g_scene, g_characterMeshRef, g_currentStep, g_hasSkeletonRemoved,
                 g_draggedMarkerRef, g_bonesGenerated, g_clicks, g_toast, g_exports, riggerLoopVars, riggerTimerVars,
                 riggerLookVars, notRiggerVars>>

\* handleMouseUp, on mouseup and on mouseleave
G_handleMouseUp ==
  /\ focus = "rigger"
  /\ g_listening
  /\ g_draggedMarkerRef # NoMarker
  /\ g_draggedMarkerRef' = NoMarker
  /\ UNCHANGED <<focus, g_isOpen, g_modelUrl, g_initPending, g_poll, g_sceneRef,
                 g_rendererRef, g_skeletonRef, g_webglError, g_listening, g_loadSeq,
                 g_loads, g_scene, g_characterMeshRef, g_currentStep,
                 g_hasSkeletonRemoved, g_markers, g_bonesGenerated, g_bonesGroupRef,
                 g_skeletonLines, g_clicks, g_lastMove, g_toast, riggerAuxVars,
                 riggerLookVars, notRiggerVars>>

\* handleGenerateBones, the button of the generate step
G_handleGenerateBones ==
  /\ focus = "rigger"
  /\ g_isOpen
  /\ g_currentStep = "generate"
  /\ ~g_bonesGenerated
  /\ LET rootBone == createBoneHierarchy(g_markers)
     IN  IF ~g_skeletonRef \/ ~g_sceneRef \/ synthesisFailed(rootBone)
           THEN /\ g_toast' = IF g_skeletonRef /\ g_sceneRef THEN "Error" ELSE g_toast
                /\ UNCHANGED <<g_scene, g_bonesGroupRef, g_skeletonLines,
                               g_bonesGenerated, g_markerScale>>
           ELSE /\ g_scene' = g_scene \cup {RootBoneObject}
                /\ g_bonesGroupRef' = rootBone
                /\ g_skeletonLines' = skeletonLines(rootBone)
                /\ g_bonesGenerated' = TRUE
                /\ g_toast' = "Huesos Generados"
                /\ G_renderMarkersEffect
  /\ UNCHANGED <<focus, g_isOpen, g_modelUrl, g_initPending, g_poll, g_sceneRef,
                 g_rendererRef, g_skeletonRef, g_webglError, g_listening, g_loadSeq,
                 g_loads, g_characterMeshRef, g_currentStep, g_hasSkeletonRemoved,
                 g_markers, g_draggedMarkerRef, g_clicks, g_lastMove, g_exports, riggerLoopVars, riggerTimerVars,
                 riggerLookVars, notRiggerVars>>

\* the markers handleReset sets: prev.map(m => ({ ...m, placed: false })).
\* The faulty variant leaves the root marker as it was.
resetMarkersKeepingRoot(markers) ==
  [id \in MarkerIds |-> IF id = "groin" THEN markers[id]
                                         ELSE [markers[id] EXCEPT !.placed = FALSE]]
resetMarkers(markers) ==
  [id \in MarkerIds |-> [markers[id] EXCEPT !.placed = FALSE]]

\* bonesGroupRef after handleReset: nulled when it and the scene are set.
\* The faulty variant keeps it.
bonesGroupAfterResetKept(bonesGroup, sceneOk) == bonesGroup
bonesGroupAfterReset(bonesGroup, sceneOk) ==
  IF bonesGroup.present /\ sceneOk THEN NoSkeleton ELSE bonesGroup

\* handleReset, the reset button of the dialog header
G_handleReset ==
  /\ focus = "rigger"
  /\ g_isTranslucent' = FALSE
  /\ g_isOpen
  /\ g_currentStep' = "upload"
  /\ g_markers' = resetMarkers(g_markers)
  /\ g_hasSkeletonRemoved' = FALSE
  /\ g_bonesGenerated' = FALSE
  /\ g_skeletonLines' = IF g_skeletonRef THEN {} ELSE g_skeletonLines
  /\ g_scene' = IF g_bonesGroupRef.present /\ g_sceneRef
                  THEN g_scene \ {RootBoneObject} ELSE g_scene
  /\ g_bonesGroupRef' = bonesGroupAfterReset(g_bonesGroupRef, g_sceneRef)
  /\ g_listening' = FALSE
  /\ G_renderMarkersEffect
  /\ UNCHANGED <<focus, g_isOpen, g_modelUrl, g_initPending, g_poll, g_sceneRef,
                 g_rendererRef, g_skeletonRef, g_webglError, g_loadSeq, g_loads,
                 g_characterMeshRef, g_draggedMarkerRef, g_clicks, g_lastMove,
                 g_toast, g_exports, riggerLoopVars, riggerTimerVars,
                 g_opacity, notRiggerVars>>

\* the continue button of the adjust step
G_nextToSave ==
  /\ focus = "rigger"
  /\ g_isOpen
  /\ g_currentStep = "adjust"
  /\ UNCHANGED g_hasSkeletonRemoved
  /\ G_setCurrentStep("save")

\* the copy handleSaveModel makes of an object to bind and export.  The faulty
\* variant takes the object itself.
cloneForExportSame(o) == o
cloneForExport(o) == [k |-> "export", r |-> o.r]

\* handleSaveModel, the button of the save step, up to the exporter's
\* callbacks: the bones enter the skinned mesh made in the model copy and the
\* model copy enters the export group, each leaving the parent it had; an
\* exception is caught and reported
G_handleSaveModel(throws) ==
  /\ focus = "rigger"
  /\ g_isOpen
  /\ g_currentStep = "save"
  /\ IF g_characterMeshRef = NoObject \/ ~g_bonesGroupRef.present
       THEN /\ g_toast' = "Error"
            /\ UNCHANGED <<g_scene, g_exports>>
       ELSE /\ g_scene' = g_scene \ {cloneForExport(RootBoneObject),
                                     cloneForExport(g_characterMeshRef)}
            /\ IF throws
                 THEN g_toast' = "Error" /\ UNCHANGED g_exports
                 ELSE g_exports' = g_exports + 1 /\ UNCHANGED g_toast
  /\ UNCHANGED <<focus, g_isOpen, g_modelUrl, g_initPending, g_poll, g_sceneRef,
                 g_rendererRef, g_skeletonRef, g_webglError, g_listening, g_loadSeq,
                 g_loads, g_characterMeshRef, g_currentStep, g_hasSkeletonRemoved,
                 g_markers, g_draggedMarkerRef, g_bonesGenerated, g_bonesGroupRef,
                 g_skeletonLines, g_clicks, g_lastMove, riggerLoopVars,
                 riggerTimerVars, g_markerScale, riggerLookVars, notRiggerVars>>

\* the exporter calls back with the file or with an error
G_exportSettled(ok) ==
  /\ focus = "rigger"
  /\ g_exports > 0
  /\ g_exports' = g_exports - 1
  /\ g_toast' = IF ok THEN "Modelo Guardado" ELSE "Error al Exportar"
  /\ UNCHANGED <<focus, g_isOpen, g_modelUrl, g_initPending, g_poll, g_sceneRef,
                 g_rendererRef, g_skeletonRef, g_webglError, g_listening, g_loadSeq,
                 g_loads, g_scene, g_characterMeshRef, g_currentStep,
                 g_hasSkeletonRemoved, g_markers, g_draggedMarkerRef,
                 g_bonesGenerated, g_bonesGroupRef, g_skeletonLines, g_clicks,
                 g_lastMove, riggerLoopVars, riggerTimerVars, g_markerScale,
                 riggerLookVars, notRiggerVars>>

\* handleHighlightMarker, a marker button of the adjust step on a placed marker
G_handleHighlightMarker(markerId) ==
  /\ focus = "rigger"
  /\ g_isOpen
  /\ g_currentStep = "adjust"
  /\ g_markers[markerId].placed
  /\ LET pending == clearTimeout(g_timeouts, g_highlightTimeoutRef)
         id == setTimeoutId(pending)
     IN  /\ g_timeouts' = pending \cup {[id |-> id, left |-> HighlightTimeout]}
         /\ g_highlightTimeoutRef' = id
  /\ g_highlightedMarker' = markerId
  /\ g_sinceHighlight' = 0
  /\ G_highlightEffects(g_highlightedMarker, markerId)
  /\ UNCHANGED <<focus, g_isOpen, g_modelUrl, g_initPending, g_poll, g_sceneRef,
                 g_rendererRef, g_skeletonRef, g_webglError, g_listening, g_loadSeq,
                 g_loads, g_scene, g_characterMeshRef, g_currentStep,
                 g_hasSkeletonRemoved, g_markers, g_draggedMarkerRef,
                 g_bonesGenerated, g_bonesGroupRef, g_skeletonLines, g_clicks,
                 g_lastMove, g_toast, g_exports, riggerLoopVars, riggerLookVars, notRiggerVars>>

\* a second passes with no timeout due
G_tick ==
  /\ focus = "rigger"
  /\ g_timeouts # {}
  /\ \A t \in g_timeouts : t.left > 0
  /\ g_timeouts' = {[t EXCEPT !.left = t.left - 1] : t \in g_timeouts}
  /\ g_sinceHighlight' = IF g_sinceHighlight < HighlightTimeout
                            THEN g_sinceHighlight + 1 ELSE g_sinceHighlight
  /\ UNCHANGED <<focus, g_isOpen, g_modelUrl, g_initPending, g_poll, g_sceneRef,
                 g_rendererRef, g_skeletonRef, g_webglError, g_listening, g_loadSeq,
                 g_loads, g_scene, g_characterMeshRef, g_currentStep,
                 g_hasSkeletonRemoved, g_markers, g_draggedMarkerRef,
                 g_bonesGenerated, g_bonesGroupRef, g_skeletonLines, g_clicks,
                 g_lastMove, g_toast, g_exports, riggerLoopVars,
                 g_highlightedMarker, g_highlightTimeoutRef, g_markerScale,
                 riggerLookVars, notRiggerVars>>

\* the un-highlight timeout t is due and its callback runs
G_highlightTimeout(t) ==
  /\ focus = "rigger"
  /\ t \in g_timeouts
  /\ t.left = 0
  /\ g_timeouts' = g_timeouts \ {t}
  /\ g_highlightedMarker' = NoMarker
  /\ g_highlightTimeoutRef' = 0
  /\ G_highlightEffects(g_highlightedMarker, NoMarker)
  /\ UNCHANGED <<focus, g_isOpen, g_modelUrl, g_initPending, g_poll, g_sceneRef,
                 g_rendererRef, g_skeletonRef, g_webglError, g_listening, g_loadSeq,
                 g_loads, g_scene, g_characterMeshRef, g_currentStep,
                 g_hasSkeletonRemoved, g_markers, g_draggedMarkerRef,
                 g_bonesGenerated, g_bonesGroupRef, g_skeletonLines, g_clicks,
                 g_lastMove, g_toast, g_exports, riggerLoopVars, g_sinceHighlight,
                 riggerLookVars, notRiggerVars>>

\* a frame of the pulse effect: the mesh of the highlighted marker is scaled
G_pulse(scale) ==
  /\ focus = "rigger"
  /\ g_highlightedMarker # NoMarker
  /\ g_skeletonRef
  /\ g_markers[g_highlightedMarker].placed
  /\ g_markerScale' = [g_markerScale EXCEPT ![g_highlightedMarker] = scale]
  /\ UNCHANGED <<focus, g_isOpen, g_modelUrl, g_initPending, g_poll, g_sceneRef,
                 g_rendererRef, g_skeletonRef, g_webglError, g_listening, g_loadSeq,
                 g_loads, g_scene, g_characterMeshRef, g_currentStep,
                 g_hasSkeletonRemoved, g_markers, g_draggedMarkerRef,
                 g_bonesGenerated, g_bonesGroupRef, g_skeletonLines, g_clicks,
                 g_lastMove, g_toast, g_exports, riggerLoopVars, riggerTimerVars,
                 riggerLookVars, notRiggerVars>>

\* the state after construction, with the given props and marker state
G_Init(modelUrls) ==
  /\ g_isOpen = FALSE
  /\ g_modelUrl \in modelUrls
  /\ g_initPending = FALSE
  /\ g_poll = FALSE
  /\ g_sceneRef = FALSE
  /\ g_rendererRef = "null"
  /\ g_skeletonRef = FALSE
  /\ g_webglError = FALSE
  /\ g_listening = FALSE
  /\ g_loadSeq = 0
  /\ g_loads = {}
  /\ g_scene = {}
  /\ g_characterMeshRef = NoObject
  /\ g_currentStep = "upload"
  /\ g_hasSkeletonRemoved = FALSE
  /\ g_markers = InitialMarkers
  /\ g_draggedMarkerRef = NoMarker
  /\ g_bonesGenerated = FALSE
  /\ g_bonesGroupRef = NoSkeleton
  /\ g_skeletonLines = {}
  /\ g_clicks = 0
  /\ g_lastMove = NoMove
  /\ g_toast = NoToast
  /\ g_exports = 0
  /\ g_resizeListeners = IF g_rendererRef = "live" THEN 1 ELSE 0
  /\ g_loops = IF g_rendererRef = "live" THEN 1 ELSE 0
  /\ g_highlightedMarker = NoMarker
  /\ g_highlightTimeoutRef = 0
  /\ g_timeouts = {}
  /\ g_sinceHighlight = 0
  /\ g_markerScale = [id \in MarkerIds |-> BaseScale]
  /\ g_isTranslucent = FALSE
  /\ g_opacity = Opaque

\* marker states synthesis is applied to: any set of placed markers, each
\* placed marker at its staged position or dragged to its landmark on the body
MarkerLayouts ==
  { [id \in MarkerIds |->
       [placed |-> id \in placed,
        position |-> IF id \in placed /\ ~dragged
                       THEN stagedPosition(id) ELSE InitialPosition[id]]] :
    placed \in SUBSET MarkerIds, dragged \in BOOLEAN }
\* the marker states the generate button is enabled for: all 13 placed
FullLayouts == { l \in MarkerLayouts : \A id \in MarkerIds : l[id].placed }
\* the tree of an earlier synthesis
EarlierSkeleton ==
  createBoneHierarchy([id \in MarkerIds |->
                         [placed |-> TRUE, position |-> stagedPosition(id)]])

\* the generate step of an open modal with a loaded model, for the given
\* marker states and bone trees left by an earlier synthesis
G_InitSynth(layouts, skeletons) ==
  /\ g_isOpen = TRUE
  /\ g_modelUrl = UrlHeroFbx
  /\ g_initPending = FALSE
  /\ g_poll = FALSE
  /\ g_sceneRef = TRUE
  /\ g_rendererRef = "live"
  /\ g_skeletonRef = TRUE
  /\ g_webglError = FALSE
  /\ g_listening = FALSE
  /\ g_loadSeq = 1
  /\ g_loads = {}
  /\ g_bonesGroupRef \in skeletons
  /\ g_scene = {CloneOf(LoadedObject(1))}
                 \cup (IF g_bonesGroupRef.present THEN {RootBoneObject} ELSE {})
  /\ g_characterMeshRef = CloneOf(LoadedObject(1))
  /\ g_currentStep = "generate"
  /\ g_hasSkeletonRemoved = TRUE
  /\ g_markers \in layouts
  /\ g_draggedMarkerRef = NoMarker
  /\ g_bonesGenerated = FALSE
  /\ g_skeletonLines = skeletonLines(g_bonesGroupRef)
  /\ g_clicks = Cardinality({id \in MarkerIds : g_markers[id].placed})
  /\ g_lastMove = NoMove
  /\ g_toast = NoToast
  /\ g_exports = 0
  /\ g_resizeListeners = IF g_rendererRef = "live" THEN 1 ELSE 0
  /\ g_loops = IF g_rendererRef = "live" THEN 1 ELSE 0
  /\ g_highlightedMarker = NoMarker
  /\ g_highlightTimeoutRef = 0
  /\ g_timeouts = {}
  /\ g_sinceHighlight = 0
  /\ g_markerScale = [id \in MarkerIds |-> BaseScale]
  /\ g_isTranslucent = FALSE
  /\ g_opacity = Opaque

----------------------------------------------------------------------------
(* The in-place filter applied to clips and root bones drawn from small sets *)

\* track names a clip is drawn from
TrackNames == { mixamorig \o Hips \o dotPosition,
                mixamorig \o Hips \o dotQuaternion,
                mixamorig \o HipsTwist \o dotPosition,
                mixamorig \o Spine \o dotPosition,
                Hips \o dotPosition }
\* root bones a model is found to have
RootBones == { NoBone, Bone(mixamorig \o Hips, FALSE), Bone(Hips, FALSE) }
\* the clips of at most MaxTracks tracks
Clips == { Clip(<<"c">>, WalkDuration, tracks) :
             tracks \in UNION { [1..n -> TrackNames] : n \in 0..MaxTracks } }

\* createInPlaceClip of the viewer on the drawn clip and root bone
C_viewerCreateInPlaceClip ==
  /\ focus = "clip"
  /\ c_by = "none"
  /\ c_inPlaceClip' = createInPlaceClip(c_clip, c_rootBone)
  /\ c_by' = "viewer"
  /\ UNCHANGED <<focus, c_clip, c_rootBone, notClipVars>>

\* createInPlaceClip of the thumbnail capture on the drawn clip and root bone
C_thumbCreateInPlaceClip ==
  /\ focus = "clip"
  /\ c_by = "none"
  /\ c_inPlaceClip' = T_createInPlaceClip(c_clip, c_rootBone)
  /\ c_by' = "thumb"
  /\ UNCHANGED <<focus, c_clip, c_rootBone, notClipVars>>

C_Init(clips, rootBones) ==
  /\ c_clip \in clips
  /\ c_rootBone \in rootBones
  /\ c_inPlaceClip = NoClip
  /\ c_by = "none"

----------------------------------------------------------------------------
(* Specifications *)

\* every component in its state after construction; the props of the component
\* in focus are drawn from the given sets, the others are left unset
InitWith(component, modelUrls, animUrls) ==
  /\ focus = IF component \in {"synth", "adjust"} THEN "rigger"
             ELSE IF component = "removal" THEN "replacer" ELSE component
  /\ IF component = "viewer" THEN V_Init(modelUrls, animUrls) ELSE V_Init({NoUrl}, {NoUrl})
  /\ IF component = "replacer" THEN R_Init(modelUrls, {HeroTree})
       ELSE IF component = "removal" THEN R_Init(modelUrls, Trees)
       ELSE R_Init({NoUrl}, {HeroTree})
  /\ IF component = "thumb" THEN T_Init(animUrls, BOOLEAN) ELSE T_Init({NoUrl}, {FALSE})
  /\ IF component = "rigger" THEN G_Init(modelUrls)
       ELSE IF component = "synth" THEN G_InitSynth(MarkerLayouts, {NoSkeleton, EarlierSkeleton})
       ELSE IF component = "adjust" THEN G_InitSynth(FullLayouts, {NoSkeleton})
       ELSE G_Init({NoUrl})
  /\ IF component = "clip" THEN C_Init(Clips, RootBones) ELSE C_Init({NoClip}, {NoBone})

NextViewerAnim ==
  \/ \E u \in AnimUrls \cup {NoUrl} : v_animSeq < MaxAnimReq /\ V_setAnimationUrl(u)
  \/ \E l \in v_animLoads : V_onAnimationLoad(l)
  \/ \E l \in v_animLoads : V_onAnimationError(l)
  \/ V_handleToggleAnimation
  \/ \E e \in BOOLEAN : V_handleInPlaceChange(e)
  \/ V_handleClearAnimation
  \/ V_animate

NextViewerLoad ==
  \/ V_initViewer
  \/ \E u \in ModelUrls \cup {NoUrl} : V_setModelUrl(u)
  \/ V_unmount
  \/ \E l \in v_loads : V_onLoad(l)
  \/ \E l \in v_loads : V_onError(l)

NextReplacer ==
  \/ r_openSeq < MaxReq /\ R_open("valid")
  \/ R_close
  \/ \E u \in ModelUrls \cup {NoUrl} : R_setModelUrl(u)
  \/ \E l \in r_loads : R_loadResolved(l)
  \/ \E l \in r_loads : R_loadRejected(l)

NextThumb ==
  \/ \E ok \in BOOLEAN : T_baseLoaded(ok)
  \/ \E u \in AnimUrls \cup {NoUrl} : T_setAnimationUrl(u)
  \/ \E l \in t_animLoads : T_onAnimationLoad(l)
  \/ \E e \in BOOLEAN : T_setInPlace(e)
  \/ T_animate

\* model loading in the main viewer and in the skeleton-replacer modal
InitLoad ==
  \/ InitWith("viewer", ModelUrls \cup {NoUrl}, {NoUrl})
  \/ InitWith("replacer", ModelUrls \cup {NoUrl}, {NoUrl})
NextLoad == NextViewerLoad \/ NextReplacer
SpecLoad == InitLoad /\ [][NextLoad]_vars

\* the main viewer: clip loading and playback on a model that loads and is
\* replaced
InitViewer == InitWith("viewer", {UrlHeroFbx}, {NoUrl})
NextViewer ==
  \/ V_initViewer
  \/ \E u \in ModelUrls \cup {NoUrl} :
        v_loadRequestIdRef < MaxModelsPlayback /\ V_setModelUrl(u)
  \/ V_unmount
  \/ \E l \in v_loads : V_onLoad(l)
  \/ \E l \in v_loads : V_onError(l)
  \/ NextViewerAnim
SpecViewer == InitViewer /\ [][NextViewer]_vars

\* the main viewer on one model: animation requests that overlap
NextOverlap ==
  \/ V_initViewer
  \/ \E l \in v_loads : V_onLoad(l)
  \/ \E u \in AnimUrls \cup {NoUrl} : v_animSeq < MaxOverlap /\ V_setAnimationUrl(u)
  \/ \E l \in v_animLoads : V_onAnimationLoad(l)
  \/ \E l \in v_animLoads : V_onAnimationError(l)
  \/ V_animate
SpecOverlap == InitViewer /\ [][NextOverlap]_vars

\* the main viewer on one model and one clip: playback, the sliders of
\* enthusiasm and arm spacing, and the frames rendered
PoseWithin(bound) ==
  \A i \in DOMAIN v_pose : v_pose[i].position <= bound /\ -v_pose[i].position <= bound
NextPose ==
  \/ V_initViewer
  \/ \E l \in v_loads : V_onLoad(l)
  \/ \E u \in {UrlWalkFbx} : v_animSeq < MaxAnimReq /\ V_setAnimationUrl(u)
  \/ \E l \in v_animLoads : V_onAnimationLoad(l)
  \/ V_handleToggleAnimation
  \/ V_handleClearAnimation
  \/ \E e \in Controls : V_handleEnthusiasmChange(e)
  \/ \E a \in Controls : V_handleArmSpacingChange(a)
  \/ PoseWithin(MaxOffset) /\ V_animate
SpecPose == InitViewer /\ [][NextPose]_vars

\* the main viewer on one model and one clip: the speed slider
NextSpeed ==
  \/ V_initViewer
  \/ \E l \in v_loads : V_onLoad(l)
  \/ \E u \in {UrlWalkFbx} : v_animSeq < MaxAnimReq /\ V_setAnimationUrl(u)
  \/ \E l \in v_animLoads : V_onAnimationLoad(l)
  \/ \E enabled \in BOOLEAN : V_handleInPlaceChange(enabled)
  \/ \E speed \in Inputs : V_handleSpeedChange(speed)
SpecSpeed == InitViewer /\ [][NextSpeed]_vars

\* the skeleton replacer opened and closed over a canvas that may lack
\* layout: attempts, retry timers, frames
NextReplacerInit ==
  \/ \E canvas \in CanvasStates : r_openSeq < MaxOpens /\ R_open(canvas)
  \/ \E t \in r_timers : \E canvas \in CanvasStates : R_retry(t, canvas)
  \/ \E n \in r_loops : R_animate(n)
  \/ R_close
  \/ \E l \in r_loads : R_loadResolved(l)
InitReplacerInit == InitWith("replacer", {NoUrl, UrlHeroFbx}, {NoUrl})
SpecReplacerInit == InitReplacerInit /\ [][NextReplacerInit]_vars

\* the replacer opened once on a model file of any shape, with removal and export
NextRemoval ==
  \/ r_openSeq < 1 /\ R_open("valid")
  \/ \E l \in r_loads : R_loadResolved(l)
  \/ Len(r_model) <= MaxTreeNodes /\ R_handleRemoveSkeleton
  \/ R_handleExportModel
  \/ \E ok \in BOOLEAN : R_exportSettled(ok)
InitRemoval == InitWith("removal", {UrlHeroFbx}, {NoUrl})
SpecRemoval == InitRemoval /\ [][NextRemoval]_vars

\* the main viewer over a container that may be missing: attempts of
\* initViewer and model loading
NextViewerInit ==
  \/ NextViewerLoad
  \/ v_initRetries < MaxInitRetries /\ V_initViewerRetry
InitViewerInit == InitWith("viewer", {NoUrl, UrlHeroFbx}, {NoUrl})
SpecViewerInit == InitViewerInit /\ [][NextViewerInit]_vars

\* clip loading in the main viewer and in the thumbnail capture
InitAnim ==
  \/ InitViewer
  \/ InitWith("thumb", {NoUrl}, AnimUrls \cup {NoUrl})
NextAnim == NextViewer \/ NextThumb
SpecAnim == InitAnim /\ [][NextAnim]_vars

\* model loading in the auto-rigger modal
NextRigLoad ==
  \/ G_open
  \/ G_close
  \/ \E u \in ModelUrls \cup {NoUrl} : G_setModelUrl(u)
  \/ \E o \in {"ok", "nocanvas", "nowebgl"} : g_loops < MaxLoops /\ G_initScene(o)
  \/ G_checkScene
  \/ \E l \in g_loads : G_onLoad(l)
  \/ \E l \in g_loads : G_onError(l)
  \/ G_handleRemoveSkeleton
  \/ G_handleReset
InitRigLoad == InitWith("rigger", ModelUrls \cup {NoUrl}, {NoUrl})
SpecRigLoad == InitRigLoad /\ [][NextRigLoad]_vars

\* model loading in the three components that load a model
InitFallback == InitLoad \/ InitRigLoad
SpecFallback == InitFallback /\ [][NextLoad \/ NextRigLoad]_vars

\* marker placement and drag in the auto-rigger modal on one model
NextRigMarkers ==
  \/ G_open
  \/ \E o \in {"ok", "nocanvas", "nowebgl"} : G_initScene(o)
  \/ G_checkScene
  \/ \E l \in g_loads : G_onLoad(l)
  \/ \E l \in g_loads : G_onError(l)
  \/ G_handleRemoveSkeleton
  \/ G_keepSkeleton
  \/ G_nextToMarkers
  \/ \E id \in MarkerIds : g_clicks < MaxClicks /\ G_handleMarkerClick(id)
  \/ \E id \in MarkerIds : G_handleMouseDown(id)
  \/ \E hit \in {"surface", "plane", "none"} : \E p \in DragPoints :
        G_handleMouseMove(hit, p)
  \/ G_handleMouseUp
  \/ G_handleReset
InitRigMarkers == InitWith("rigger", {UrlHeroFbx}, {NoUrl})
SpecRigMarkers == InitRigMarkers /\ [][NextRigMarkers]_vars

\* bone synthesis applied to drawn marker states
NextSynth ==
  \/ G_handleGenerateBones
  \/ G_nextToAdjust
InitSynth == InitWith("synth", {NoUrl}, {NoUrl})
SpecSynth == InitSynth /\ [][NextSynth]_vars

\* bone synthesis from 13 placed markers, marker drags in the adjust step, the
\* reset, and the modal closed and opened again
NextAdjust ==
  \/ G_handleGenerateBones
  \/ G_nextToAdjust
  \/ \E id \in MarkerIds : G_handleMouseDown(id)
  \/ \E hit \in {"surface", "plane", "none"} : \E p \in DragPoints :
        G_handleMouseMove(hit, p)
  \/ G_handleMouseUp
  \/ G_handleReset
  \/ G_close
  \/ G_open
InitAdjust == InitWith("adjust", {NoUrl}, {NoUrl})
SpecAdjust == InitAdjust /\ [][NextAdjust]_vars

\* the markers a behaviour drags or highlights in the adjust step
AdjustIds == {"chin", "groin"}

\* the save step of the rigger after synthesis, and the replacer's export
NextExport ==
  \/ G_handleGenerateBones
  \/ G_nextToAdjust
  \/ G_nextToSave
  \/ \E throws \in BOOLEAN : g_exports < MaxExports /\ G_handleSaveModel(throws)
  \/ \E ok \in BOOLEAN : G_exportSettled(ok)
  \/ G_handleReset
  \/ \E id \in AdjustIds : G_handleMouseDown(id)
  \/ \E hit \in {"surface", "plane", "none"} : \E p \in DragPoints :
        G_handleMouseMove(hit, p)
  \/ G_handleMouseUp
InitExport == InitAdjust \/ InitWith("replacer", {UrlHeroFbx}, {NoUrl})
SpecExport == InitExport /\ [][NextExport \/ NextRemoval]_vars

\* the marker buttons of the adjust step, with the clock of the timeouts
NextHighlight ==
  \/ G_handleGenerateBones
  \/ G_nextToAdjust
  \/ \E id \in AdjustIds : G_handleHighlightMarker(id)
  \/ G_tick
  \/ \E t \in g_timeouts : G_highlightTimeout(t)
  \/ \E scale \in PulseScales : G_pulse(scale)
  \/ G_close
  \/ G_open
  \/ G_nextToSave
SpecHighlight == InitAdjust /\ [][NextHighlight]_vars

\* the wizard of one opening of the modal, up to the save step: the markers
\* are placed in the order of the panel, two markers are dragged
nextInPanel(markers) ==
  MarkerOrder[CHOOSE i \in 1..Len(MarkerOrder) :
                /\ ~markers[MarkerOrder[i]].placed
                /\ \A j \in 1..(i-1) : markers[MarkerOrder[j]].placed]
NextWizard ==
  \/ G_open
  \/ g_loops < MaxLoops /\ G_initScene("ok")
  \/ G_checkScene
  \/ \E l \in g_loads : G_onLoad(l)
  \/ G_handleRemoveSkeleton
  \/ G_keepSkeleton
  \/ G_nextToMarkers
  \/ /\ g_clicks < MaxPlacements
     /\ ~allMarkersPlaced(g_markers)
     /\ G_handleMarkerClick(nextInPanel(g_markers))
  \/ G_nextToGenerate
  \/ G_handleGenerateBones
  \/ G_nextToAdjust
  \/ G_nextToSave
  \/ \E id \in AdjustIds : G_handleMouseDown(id)
  \/ \E hit \in {"surface", "plane", "none"} : \E p \in DragPoints :
        G_handleMouseMove(hit, p)
  \/ G_handleMouseUp
  \/ G_handleReset
SpecWizard == InitRigMarkers /\ [][NextWizard]_vars

\* the translucency button of the rigger with model loads, the first wizard
\* steps, the reset and the modal closed and opened again
NextTranslucent ==
  \/ G_open
  \/ g_loops < MaxLoops /\ G_initScene("ok")
  \/ G_checkScene
  \/ \E l \in g_loads : G_onLoad(l)
  \/ \E l \in g_loads : G_onError(l)
  \/ \E u \in ModelUrls \cup {NoUrl} : G_setModelUrl(u)
  \/ G_handleToggleTranslucent
  \/ G_handleRemoveSkeleton
  \/ G_nextToMarkers
  \/ G_handleReset
  \/ G_close
SpecTranslucent == InitRigLoad /\ [][NextTranslucent]_vars

\* the in-place filter applied to drawn clips and root bones
NextClip ==
  \/ C_viewerCreateInPlaceClip
  \/ C_thumbCreateInPlaceClip
InitClip == InitWith("clip", {NoUrl}, {NoUrl})
SpecClip == InitClip /\ [][NextClip]_vars

----------------------------------------------------------------------------
(* C1: a load that completes after a newer load was issued is never applied: *)
(* its object is not in the scene, is not the current model, and, when the   *)
(* load succeeded, has been disposed (main viewer and skeleton replacer).    *)

Superseded(d) == d.id # d.cur

C1_StaleLoadDiscarded ==
  /\ \A d \in v_done :
       Superseded(d) =>
         /\ LoadedObject(d.id) \notin v_scene
         /\ PlaceholderObject(d.id) \notin v_scene
         /\ v_meshRef \notin {LoadedObject(d.id), PlaceholderObject(d.id)}
         /\ d.ok => LoadedObject(d.id) \in v_disposed
  /\ \A d \in r_done :
       Superseded(d) =>
         /\ LoadedObject(d.id) \notin r_scene
         /\ r_characterMeshRef # LoadedObject(d.id)
         /\ d.ok => LoadedObject(d.id) \in r_disposed

\* a superseded load has completed with success while the scene is live, in
\* either component
C1_Witness ==
  \/ \E d \in v_done : Superseded(d) /\ d.ok /\ v_sceneRef
  \/ \E d \in r_done : Superseded(d) /\ d.ok /\ r_sceneRef

----------------------------------------------------------------------------
(* C2: with all 13 markers placed, synthesis gives a tree of exactly 13      *)
(* joints rooted at the groin joint along the hierarchy table; the root's    *)
(* position is the groin marker's position and every other joint's offset is *)
(* its marker's position minus its parent's marker's position.               *)

\* the hierarchy table of the specification, as (parent, child) pairs
TableEdges ==
  { <<"groin", "neckBase">>, <<"groin", "leftKnee">>, <<"groin", "rightKnee">>,
    <<"neckBase", "chin">>, <<"neckBase", "leftShoulder">>,
    <<"neckBase", "rightShoulder">>,
    <<"leftShoulder", "leftElbow">>, <<"leftElbow", "leftWrist">>,
    <<"rightShoulder", "rightElbow">>, <<"rightElbow", "rightWrist">>,
    <<"leftKnee", "leftAnkle">>, <<"rightKnee", "rightAnkle">> }

C2_FullSynthesis ==
  (g_bonesGenerated /\ \A id \in MarkerIds : g_markers[id].placed) =>
     LET joints == g_bonesGroupRef.joints
     IN  /\ g_bonesGroupRef.present
         /\ Cardinality(DOMAIN joints) = 13
         /\ DOMAIN joints = MarkerIds
         /\ joints["groin"].parent = "none"
         /\ \A j \in DOMAIN joints \ {"groin"} : <<joints[j].parent, j>> \in TableEdges
         /\ joints["groin"].position = g_markers["groin"].position
         /\ \A e \in TableEdges : \A k \in 1..3 :
               joints[e[2]].position[k] =
                 g_markers[e[2]].position[k] - g_markers[e[1]].position[k]

\* bones were generated from 13 placed markers that were dragged off their
\* staged positions
C2_Witness ==
  /\ g_bonesGenerated
  /\ g_bonesGroupRef.present
  /\ \A id \in MarkerIds : g_markers[id].placed
  /\ g_markers["leftWrist"].position # stagedPosition("leftWrist")

----------------------------------------------------------------------------
(* C3: while the groin marker is unplaced, synthesis fails with the error    *)
(* report whatever the other markers are: it makes no root joint, adds no    *)
(* joint to the scene, does not set the bones-generated flag and leaves the  *)
(* tree of an earlier synthesis as it was.                                   *)

C3_MissingRoot ==
  [][ ~g_markers["groin"].placed =>
        /\ g_toast' # g_toast => g_toast' = "Error"
        /\ g_bonesGroupRef' = g_bonesGroupRef
        /\ g_skeletonLines' = g_skeletonLines
        /\ g_scene' = g_scene
        /\ ~g_bonesGenerated'
    ]_vars

\* synthesis has reported the error with other markers placed and an earlier
\* tree in the scene
C3_Witness ==
  /\ g_toast = "Error"
  /\ ~g_markers["groin"].placed
  /\ g_markers["neckBase"].placed
  /\ g_markers["leftKnee"].placed
  /\ g_bonesGroupRef.present
  /\ [k |-> "bones", r |-> 0] \in g_scene

----------------------------------------------------------------------------
(* C4: a pointer move of a drag whose ray meets neither the model's surface  *)
(* nor the plane through the marker changes no marker: not the dragged       *)
(* marker's position, no other marker's position, no placed flag.            *)

C4_MissedDragIsNoOp ==
  [][ (g_lastMove'.seq # g_lastMove.seq /\ g_lastMove'.hit = "none") =>
        g_markers' = g_markers
    ]_vars

----------------------------------------------------------------------------
(* C5: when a clip load completes with a first clip, the component creates  *)
(* and starts a playback action for it if and only if at least one track    *)
(* name of the clip begins with the rig prefix 'mixamorig'; otherwise the    *)
(* completion creates no action (main viewer and thumbnail capture).         *)

\* the prefix test of the specification, on the letters of the name
BeginsWithRigPrefix(trackName) ==
  /\ Len(trackName) >= 9
  /\ \A i \in 1..9 : trackName[i] = <<"m","i","x","a","m","o","r","i","g">>[i]
RigCompatible(clip) ==
  \E i \in DOMAIN clip.tracks : BeginsWithRigPrefix(clip.tracks[i])

GateStep(done, doneNext, action, actionNext) ==
  (doneNext # done /\ Len(doneNext.animations) > 0) =>
     IF RigCompatible(doneNext.animations[1])
       THEN /\ actionNext.present
            /\ actionNext.src = doneNext.id
            /\ actionNext.made = "load"
            /\ ~actionNext.paused
       ELSE actionNext = action

----------------------------------------------------------------------------
(* C6: in the main viewer, once the load of a clip none of whose track names *)
(* begins with the rig prefix has completed, no mixer and no action exists   *)
(* that this load created.                                                   *)

C6_RejectedClipLeavesNoMixer ==
  (/\ Len(v_animDone.animations) > 0
   /\ ~RigCompatible(v_animDone.animations[1]))
    => /\ ~(v_animationMixerRef.present /\ v_animationMixerRef.src = v_animDone.id)
       /\ ~(v_animationActionRef.present /\ v_animationActionRef.src = v_animDone.id)

----------------------------------------------------------------------------
(* C7: the in-place clip has the original's duration and exactly the         *)
(* original's tracks, in order, without the position tracks whose target is  *)
(* the detected root joint: no other track is removed, each of those is.     *)

\* a track name reads <target>.<property>
TrackTarget(trackName) == SubSeq(trackName, 1, lastIndexOf(trackName, ".") - 1)
TrackProperty(trackName) ==
  SubSeq(trackName, lastIndexOf(trackName, ".") + 1, Len(trackName))
RootPositionTrack(trackName, rootBone) ==
  /\ rootBone.present
  /\ TrackTarget(trackName) = rootBone.name
  /\ TrackProperty(trackName) = <<"p","o","s","i","t","i","o","n">>

C7_InPlaceRemovesOnlyRootPosition ==
  c_by # "none" =>
    /\ c_inPlaceClip.duration = c_clip.duration
    /\ c_inPlaceClip.tracks =
         SelectSeq(c_clip.tracks, LAMBDA t : ~RootPositionTrack(t, c_rootBone))

----------------------------------------------------------------------------
(* C8: in-place toggles never change the original clip, and whenever a       *)
(* toggle leaves in-place off with an action present, the action's clip has  *)
(* the track names of the original, in number and order.                     *)

C8_OriginalPreserved ==
  /\ [](v_originalAnimationClipRef.present => v_originalAnimationClipRef = v_loadedClip)
  /\ [][ v_inPlace' # v_inPlace =>
           /\ v_originalAnimationClipRef' = v_originalAnimationClipRef
           /\ (~v_inPlace' /\ v_animationActionRef'.present) =>
                 v_animationActionRef'.clip.tracks = v_originalAnimationClipRef'.tracks
       ]_vars

\* in-place is off again on an action the in-place effect made, for a clip
\* the filter had shortened
C8_Witness ==
  /\ ~v_inPlace
  /\ v_animationActionRef.present
  /\ v_animationActionRef.made = "inPlace"
  /\ v_rootBoneRef.present
  /\ Len(createInPlaceClip(v_originalAnimationClipRef, v_rootBoneRef).tracks)
        < Len(v_originalAnimationClipRef.tracks)

----------------------------------------------------------------------------
(* C9: a toggle of in-place while an action exists replaces the action by    *)
(* one with the time of the previous action and with its play/pause state.   *)

C9_TogglePreservesTime ==
  [][ (v_inPlace' # v_inPlace /\ v_animationActionRef.present) =>
        /\ v_animationActionRef'.present
        /\ v_animationActionRef'.made = "inPlace"
        /\ v_animationActionRef'.time = v_animationActionRef.time
        /\ v_animationActionRef'.paused = v_animationActionRef.paused
    ]_vars

\* an action the in-place effect made is paused at a time after the start
C9_Witness ==
  /\ v_animationActionRef.present
  /\ v_animationActionRef.made = "inPlace"
  /\ v_animationActionRef.time > 0
  /\ v_animationActionRef.paused
----------------------------------------------------------------------------
(* C10: in the auto-rigger modal the scene never holds the models of two     *)
(* load requests at once: the result of a load that a URL change overtook    *)
(* is not inserted.                                                          *)

C10_OneRequestInScene ==
  /\ \A a, b \in g_scene :
       (a.k \in {"model", "clone"} /\ b.k \in {"model", "clone"}) => a.r = b.r
  /\ \A a \in g_scene : a.k = "model" => a.r = g_loadSeq

----------------------------------------------------------------------------
(* C11: when a clip is requested and a second clip is requested before the   *)
(* first load finishes, the first load's result is never applied: no mixer   *)
(* and no action is made for it, so once both loads have completed the       *)
(* action, if any, is the second clip's.                                     *)

\* request id is older than the latest request, and the latest request is one
\* a loader was started for
Overtaken(id) ==
  /\ id < v_animSeq
  /\ v_animationUrl # NoUrl
  /\ V_animSupported(v_animationUrl)

C11_OvertakenClipNotApplied ==
  /\ v_animationMixerRef.present => ~Overtaken(v_animationMixerRef.src)
  /\ v_animationActionRef.present => ~Overtaken(v_animationActionRef.src)

----------------------------------------------------------------------------
(* C12: a model load or animation load that completes after the viewer was   *)
(* torn down changes nothing: no object is added to the scene, no mixer or   *)
(* action is created, and neither the mesh, the root bone, the original clip *)
(* nor the playback state is modified.                                       *)

C12_CompletionAfterTeardownChangesNothing ==
  [][~v_mounted =>
       UNCHANGED <<v_scene, v_meshRef, v_rootBoneRef, v_animationMixerRef,
                   v_animationActionRef, v_originalAnimationClipRef>>]_vars

----------------------------------------------------------------------------
(* C13: a marker's placed flag goes from unplaced to placed only, and only   *)
(* by handleMarkerClick on that marker; a drag step changes no placed flag;  *)
(* a flag goes back to unplaced only by the full reset, which unplaces all   *)
(* 13 markers in the same step.                                              *)

\* the step is handleMarkerClick on marker id
ClickStep(id) ==
  /\ g_clicks' = g_clicks + 1
  /\ g_markers' = [g_markers EXCEPT ![id] =
                     [placed |-> TRUE, position |-> stagedPosition(id)]]

\* the step is the full reset
ResetStep ==
  /\ g_currentStep' = "upload"
  /\ ~g_bonesGenerated'
  /\ \A id \in MarkerIds : ~g_markers'[id].placed

\* the step is a move of a drag
DragStep == g_lastMove' # g_lastMove

C13_PlacedFlagTransitions ==
  [][/\ \A id \in MarkerIds :
          /\ (~g_markers[id].placed /\ g_markers'[id].placed) => ClickStep(id)
          /\ (g_markers[id].placed /\ ~g_markers'[id].placed) => ResetStep
     /\ DragStep => \A id \in MarkerIds : g_markers'[id].placed = g_markers[id].placed
    ]_vars

\* markers were placed by click, one was dragged, and a reset has unplaced
\* them all
C13_Witness ==
  /\ g_clicks = MaxClicks
  /\ g_lastMove.seq > 0
  /\ \A id \in MarkerIds : ~g_markers[id].placed

----------------------------------------------------------------------------
(* C14: for every set of placed markers that includes the groin, synthesis   *)
(* creates a joint for a marker exactly when the marker is placed; the       *)
(* joints of the tree under the root are exactly the placed markers whose    *)
(* ancestors in the hierarchy table, up to the groin, are all placed, each   *)
(* under its table parent; a joint whose parent marker is unplaced is not    *)
(* attached.                                                                 *)

Placed == { id \in MarkerIds : g_markers[id].placed }

\* the ancestors of a marker in the hierarchy table of the specification
RECURSIVE AncestorsOf(_)
AncestorsOf(id) ==
  LET parents == { e[1] : e \in { x \in TableEdges : x[2] = id } }
  IN  parents \cup UNION { AncestorsOf(p) : p \in parents }

C14_JointsFollowPlacement ==
  (g_bonesGenerated /\ "groin" \in Placed) =>
     LET joints == g_bonesGroupRef.joints
     IN  /\ boneMap(g_markers) = Placed
         /\ DOMAIN joints = { id \in Placed : AncestorsOf(id) \subseteq Placed }
         /\ \A j \in DOMAIN joints \ {"groin"} : <<joints[j].parent, j>> \in TableEdges
         /\ \A e \in TableEdges :
               (e[2] \in Placed /\ e[1] \notin Placed) => e[2] \notin DOMAIN joints

\* bones were generated with the left shoulder unplaced and the left elbow
\* and wrist placed, and with the chain from chin to groin placed
C14_Witness ==
  /\ g_bonesGenerated
  /\ {"groin", "neckBase", "chin", "leftElbow", "leftWrist"} \subseteq Placed
  /\ "leftShoulder" \notin Placed
  /\ "chin" \in DOMAIN g_bonesGroupRef.joints
  /\ "leftWrist" \notin DOMAIN g_bonesGroupRef.joints

----------------------------------------------------------------------------
(* C15: in the adjust step after generation, a move of one marker makes the  *)
(* tree follow without replacing its joints: the joint of the moved marker   *)
(* and the joints of its table children get the new differences, every other *)
(* joint keeps its offset, and afterwards the root is at the groin marker    *)
(* and every other joint's offset is its marker's position minus its         *)
(* parent's marker's position.                                               *)

\* the offset the specification gives joint j for the marker state
OffsetFor(markers, j) ==
  IF j = "groin"
    THEN markers[j].position
    ELSE LET p == CHOOSE a \in MarkerIds : <<a, j>> \in TableEdges
         IN  << markers[j].position[1] - markers[p].position[1],
                markers[j].position[2] - markers[p].position[2],
                markers[j].position[3] - markers[p].position[3] >>

C15_AdjustFollowsMarker ==
  [][(g_currentStep = "adjust" /\ g_bonesGenerated /\ g_lastMove' # g_lastMove) =>
       LET m == g_lastMove'.marker
           old == g_bonesGroupRef.joints
           new == g_bonesGroupRef'.joints
           touched == {m} \cup { e[2] : e \in { x \in TableEdges : x[1] = m } }
       IN  /\ g_bonesGroupRef'.present
           /\ DOMAIN new = DOMAIN old
           /\ \A j \in DOMAIN new :
                 /\ new[j].name = old[j].name
                 /\ new[j].parent = old[j].parent
                 /\ new[j].position = OffsetFor(g_markers', j)
                 /\ j \notin touched => new[j].position = old[j].position
    ]_vars

\* in the adjust step the neck-base marker was dragged to a surface point and
\* the joints of the neck base and of the chin hold the new differences
C15_Witness ==
  /\ g_currentStep = "adjust"
  /\ g_bonesGenerated
  /\ g_lastMove.seq > 0
  /\ g_lastMove.marker = "neckBase"
  /\ g_lastMove.hit = "surface"
  /\ g_markers["neckBase"].position \in DragPoints
  /\ g_bonesGroupRef.joints["chin"].position = OffsetFor(g_markers, "chin")
  /\ g_bonesGroupRef.joints["neckBase"].position = OffsetFor(g_markers, "neckBase")

----------------------------------------------------------------------------
(* C16: whatever step the wizard is at, the reset leaves all 13 markers      *)
(* unplaced, no bone tree retained, no root joint in the scene, no skeleton  *)
(* lines drawn, the bones-generated flag false and the wizard at its first   *)
(* step.                                                                     *)

C16_ResetDiscardsAll ==
  [][(g_currentStep # "upload" /\ g_currentStep' = "upload") =>
       /\ \A id \in MarkerIds : ~g_markers'[id].placed
       /\ ~g_bonesGroupRef'.present
       /\ RootBoneObject \notin g_scene'
       /\ g_skeletonLines' = {}
       /\ ~g_bonesGenerated'
    ]_vars

\* the reset was taken after bones were generated and a marker was dragged
\* in the adjust step
C16_Witness ==
  /\ g_currentStep = "upload"
  /\ g_toast = "Huesos Generados"
  /\ g_lastMove.seq > 0
  /\ ~g_bonesGroupRef.present
  /\ \A id \in MarkerIds : ~g_markers[id].placed

----------------------------------------------------------------------------
(* C17: closing the modal discards the skeleton: after the close, and after  *)
(* the next open, no generated bone tree is retained and the bones-generated *)
(* flag is false.                                                            *)

C17_CloseDiscardsSkeleton ==
  [][g_isOpen' # g_isOpen =>
       /\ ~g_bonesGroupRef'.present
       /\ ~g_bonesGenerated'
    ]_vars

----------------------------------------------------------------------------
(* C18: handleClearAnimation, whatever the playback state it is called in,   *)
(* leaves every bone of the neutral-pose map at its captured neutral         *)
(* position and rotation, keeps no action and no original clip, and the      *)
(* state reported to the parent is not playing, frame 0 of 0, no animation.  *)

\* the step drops the original clip: only handleClearAnimation does
ClearStep == v_originalAnimationClipRef.present /\ ~v_originalAnimationClipRef'.present

AtNeutralPose ==
  /\ DOMAIN v_pose = DOMAIN v_neutralPoseRef
  /\ \A i \in DOMAIN v_pose :
       /\ v_pose[i].position = v_neutralPoseRef[i].position
       /\ v_pose[i].rotation = v_neutralPoseRef[i].rotation

----------------------------------------------------------------------------
(* C19: during playback, once the enthusiasm or the arm spacing has been     *)
(* changed through the viewer's handle, every frame rendered afterwards      *)
(* applies the blend factor and the arm rotation of the new values.          *)

\* a frame of a running action was rendered
PlaybackFrame ==
  /\ v_animationActionRef.present
  /\ v_animationActionRef'.present
  /\ v_animationActionRef'.time # v_animationActionRef.time

C19_FramesUseNewControls ==
  [][PlaybackFrame =>
       v_pose' = applyEnthusiasm(
                   applyArmSpacing(mixerUpdate(v_animationActionRef, v_pose).pose,
                                   v_neutralPoseRef, v_armSpacing),
                   v_neutralPoseRef, v_animationEnthusiasm)
    ]_vars

----------------------------------------------------------------------------
(* C20: the pose a frame gives a bone is a function of the clip's pose at    *)
(* the playback time, the neutral pose and the control values; blend and     *)
(* arm rotation do not build on the result of the frame before, so a frame   *)
(* rendered at an unchanged playback time, as when paused, changes no bone.  *)

\* the action is as the frame before left it: same clip, same playback time,
\* and the mixer computes the values it computed last
SameTimeFrame ==
  /\ v_animationActionRef.present
  /\ v_animationActionRef' = v_animationActionRef

C20_FramesDoNotCompound ==
  [][SameTimeFrame => v_pose' = v_pose]_vars

----------------------------------------------------------------------------
(* C21: for every bone of the neutral-pose map whose parent is a bone, a     *)
(* frame's enthusiasm pass leaves the pose it read when the enthusiasm is    *)
(* 50; at enthusiasm 0 it leaves the pose one fifth of the way from the      *)
(* captured neutral pose to the pose it read (position and shortest          *)
(* rotation), the factor being 0.2 there and not 0.                          *)

\* a frame of the render loop with an action: no prop, slider, toggle, load
\* or clip request changed
FrameStep ==
  /\ v_animationActionRef.present
  /\ v_animationActionRef'.present
  /\ UNCHANGED <<viewerLoadVars, v_animLoads, v_isAnimationPlaying,
                 v_animationEnthusiasm, v_armSpacing>>

\* the pose the enthusiasm pass reads: the mixer's, after the arm pass
AnimatedPose ==
  applyArmSpacing(mixerUpdate(v_animationActionRef, v_pose).pose,
                  v_neutralPoseRef, v_closure.armSpacing)

Blended(i) == i \in DOMAIN v_neutralPoseRef /\ v_pose[i].bone.parentIsBone

ShortestAngle(from, to) == ((to - from + 180) % 360) - 180

C21_BlendAtFiftyAndZero ==
  [][FrameStep =>
       \A i \in DOMAIN v_pose :
         Blended(i) =>
           /\ v_closure.animationEnthusiasm = 50 => v_pose'[i] = AnimatedPose[i]
           /\ v_closure.animationEnthusiasm = 0 =>
                LET n == v_neutralPoseRef[i]
                    a == AnimatedPose[i]
                    moved == v_pose'[i].position - n.position
                    turned == ShortestAngle(n.rotation, a.rotation) \div 5
                IN  /\ 5 * moved <= a.position - n.position
                    /\ a.position - n.position < 5 * moved + 5
                    /\ (v_pose'[i].rotation - n.rotation - turned) % 360 = 0
    ]_vars

\* the claim as stated: at enthusiasm 0 the pass leaves the neutral pose
C21_ZeroGivesNeutral ==
  [][FrameStep /\ v_closure.animationEnthusiasm = 0 =>
       \A i \in DOMAIN v_pose :
         Blended(i) =>
           /\ v_pose'[i].position = v_neutralPoseRef[i].position
           /\ v_pose'[i].rotation = v_neutralPoseRef[i].rotation
    ]_vars

\* frames were rendered at enthusiasm 0 and left a tracked bone away from
\* its neutral pose
C21_Witness ==
  /\ v_closure.animationEnthusiasm = 0
  /\ v_closure.isAnimationPlaying
  /\ v_animationActionRef.present
  /\ v_animationActionRef.time > 0
  /\ \E i \in DOMAIN v_pose :
       /\ Blended(i)
       /\ v_pose[i].rotation # v_neutralPoseRef[i].rotation

----------------------------------------------------------------------------
(* C22: handleSpeedChange gives the action the time scale that interpolates  *)
(* linearly between 0.1 at speed 0 and 1.0 at speed 50 and between 1.0 at    *)
(* speed 50 and 3.0 at speed 100; the two halves meet at 50 and a higher     *)
(* speed gives a higher time scale.  Time scales are in 500ths.              *)

\* handleSpeedChange acted on an action
SpeedStep ==
  /\ v_animationActionRef.present
  /\ v_animationActionRef'.present
  /\ \/ v_animationSpeed' # v_animationSpeed
     \/ v_animationActionRef'.timeScale # v_animationActionRef.timeScale
  /\ UNCHANGED <<v_animLoads, v_inPlace>>

\* the straight line through (s0, atS0) and (s1, atS1), times s1 - s0
Between(s0, atS0, s1, atS1, speed) == (s1 - speed) * atS0 + (speed - s0) * atS1

C22_SpeedMapping ==
  [][SpeedStep =>
       LET speed == v_animationSpeed'
           scale == v_animationActionRef'.timeScale
       IN  /\ speed = 0 => scale = 50
           /\ speed = 50 => scale = 500
           /\ speed = 100 => scale = 1500
           /\ speed <= 50 => 50 * scale = Between(0, 50, 50, 500, speed)
           /\ speed >= 50 => 50 * scale = Between(50, 500, 100, 1500, speed)
           /\ \A lower \in Inputs :
                lower < speed => timeScaleOf(lower) < scale
    ]_vars

\* the speed was raised into the upper half on a playing action
C22_Witness ==
  /\ v_animationActionRef.present
  /\ v_animationSpeed = 75
  /\ v_animationActionRef.timeScale = 1000

----------------------------------------------------------------------------
(* C23: in the skeleton replacer, the attempts an open starts end: an        *)
(* attempt without a valid canvas sets one timer for the next attempt while  *)
(* fewer than 5 retries were made and none after the fifth retry; an attempt *)
(* that finds a valid canvas sets no timer and creates scene, renderer,      *)
(* render loop and resize listener only when there is no scene, so there is  *)
(* never a second one while a scene exists and no open gets two.             *)

\* a timer of the chain fired
Fired(t) == t \in r_timers /\ t \notin r_timers'
SceneCreated == Len(r_created') = Len(r_created) + 1

C23_InitializationTerminates ==
  [][
      /\ \A t \in r_timers' :
          /\ t.retryCount \in 1..5
          /\ \A u \in r_timers' : u.chain = t.chain => u = t
      /\ \A t \in r_timers :
          Fired(t) =>
            /\ (t.retryCount = 5 => \A u \in r_timers' : u.chain # t.chain)
            /\ (SceneCreated => \A u \in r_timers' : u.chain # t.chain)
            /\ \A u \in r_timers' \ r_timers :
                 u = [chain |-> t.chain, retryCount |-> t.retryCount + 1]
      /\ (SceneCreated => ~r_sceneRef /\ r_sceneRef' /\ r_isRendererReady')
      /\ Cardinality(r_renderers') <= 1
      /\ Cardinality(r_loops') <= 1
      /\ Cardinality(r_resizeListeners') <= 1
      /\ \A i, j \in 1..Len(r_created') :
           (/\ r_created'[i].whileOpen
            /\ r_created'[j].whileOpen
            /\ r_created'[i].open = r_created'[j].open) => i = j
    ]_vars

\* the second open's scene was created by a retry the first open had left
\* pending, and every chain has ended
C23_Witness ==
  /\ r_isOpen
  /\ r_openSeq = 2
  /\ r_timers = {}
  /\ r_sceneRef
  /\ r_created = << [chain |-> 1, open |-> 2, whileOpen |-> TRUE] >>

----------------------------------------------------------------------------
(* C24: in the skeleton replacer, when the last retry of the open modal's    *)
(* chain still finds no valid canvas, the component's state changes to       *)
(* report the failure: the state after the attempt differs from the state    *)
(* of a modal that is merely not initialized yet.                            *)

\* the fifth retry of the open modal's own chain found no valid canvas
Exhausted ==
  /\ r_isOpen
  /\ ~r_sceneRef
  /\ ~r_sceneRef'
  /\ \E t \in r_timers :
       /\ Fired(t)
       /\ t.chain = r_openSeq
       /\ t.retryCount = MaxRetries

\* the state the component renders from
R_componentState == <<r_isOpen, r_modelUrl, r_isRendererReady, r_sceneRef>>

C24_ExhaustionReported ==
  [][Exhausted => R_componentState' # R_componentState]_vars

----------------------------------------------------------------------------
(* C25: in the main viewer the attempts of initViewer are bounded: once as   *)
(* many attempts as the skeleton replacer allows (the first and 5 retries)   *)
(* have found no container, no timer for a further attempt is set.           *)

C25_InitRetriesBounded ==
  v_initTimer => v_initRetries <= MaxRetries

----------------------------------------------------------------------------
(* C26: in the main viewer, the auto-rigger and the skeleton replacer, when  *)
(* the current request's load fails, or the URL has no loader and the        *)
(* request settles at once, the current model after the step is a            *)
(* placeholder and it is in the scene.                                       *)

\* the current request of a component with a scene settled without a model
V_settledWithout ==
  /\ v_sceneRef
  /\ \/ \E d \in v_done' \ v_done : ~d.ok /\ d.id = d.cur
     \/ v_loadRequestIdRef' # v_loadRequestIdRef /\ v_loads' = v_loads
R_settledWithout ==
  /\ r_sceneRef'
  /\ \/ \E d \in r_done' \ r_done : ~d.ok /\ d.id = d.cur
     \/ r_loadRequestIdRef' # r_loadRequestIdRef /\ r_loads' = r_loads
G_settledWithout ==
  /\ g_sceneRef
  /\ \/ \E l \in g_loads \ g_loads' :
          l.id = g_loadSeq /\ l.sceneCurrent /\ g_characterMeshRef' # LoadedObject(l.id)
     \/ g_loadSeq' # g_loadSeq /\ g_loads' = g_loads

IsPlaceholder(o) == o.k \in {"placeholder", "group"}

C26_FailureGivesPlaceholder ==
  [][/\ V_settledWithout => IsPlaceholder(v_meshRef') /\ v_meshRef' \in v_scene'
     /\ R_settledWithout =>
          IsPlaceholder(r_characterMeshRef') /\ r_characterMeshRef' \in r_scene'
     /\ G_settledWithout =>
          IsPlaceholder(g_characterMeshRef') /\ g_characterMeshRef' \in g_scene'
    ]_vars

-----------------------------------------------------------------------------
(* C27: skeleton removal on every model tree *)

\* the surfaces of a model, by the node of the file they come from
Surfaces(model) ==
  {model[i].orig : i \in {k \in 1..Len(model) : model[k].type \in {"SkinnedMesh", "Mesh"}}}
\* the plain copies of file node o in a model
PlainCopies(model, o) ==
  {i \in 1..Len(model) : model[i].orig = o /\ model[i].type = "Mesh"}

\* the model removal promises from the model before it: no bone, no skinned
\* mesh, each surface once as a plain mesh, and the info says so
IsCleanOf(before, after, info) ==
  /\ \A i \in 1..Len(after) : after[i].type \notin {"Bone", "SkinnedMesh"}
  /\ \A o \in Surfaces(before) : Cardinality(PlainCopies(after, o)) = 1
  /\ info = [hasSkeleton |-> FALSE, boneCount |-> 0]

\* C27: after the skeleton replacer's removal operation, whatever the shape of
\* the model tree, the current model holds no bone and no skinned mesh, each
\* original surface is in it exactly once as a plain mesh, and the skeleton
\* info reads no skeleton and 0 bones.
C27_RemovalCleansEveryTree ==
  [][R_handleRemoveSkeleton => IsCleanOf(r_model, r_model', r_skeletonInfo')]_vars

-----------------------------------------------------------------------------
(* C28: an export leaves the session state as it was *)

\* a step of an export: the handler up to the exporter, or the exporter's answer
ExportStep ==
  \/ \E throws \in BOOLEAN : G_handleSaveModel(throws)
  \/ \E ok \in BOOLEAN : G_exportSettled(ok)
  \/ R_handleExportModel
  \/ \E ok \in BOOLEAN : R_exportSettled(ok)

\* the session state of the rigger and of the replacer: the current model and
\* the scene it is in, the generated bones and their lines, the markers, the step
SessionState ==
  <<g_characterMeshRef, g_scene, g_bonesGroupRef, g_skeletonLines, g_bonesGenerated,
    g_markers, g_currentStep, r_characterMeshRef, r_scene, r_model, r_skeletonInfo>>

\* C28: an export attempt, whether it succeeds or fails, leaves the in-memory
\* session state unchanged: the current model, the synthesized joint hierarchy
\* and its offsets, the marker set and the wizard step are after the export
\* what they were before it.
C28_ExportLeavesState == [][ExportStep => UNCHANGED SessionState]_vars

\* the rigger exported a model with generated bones, and the bones are still
\* in the scene
C28_Witness ==
  /\ g_currentStep = "save"
  /\ g_toast = "Modelo Guardado"
  /\ g_bonesGroupRef.present
  /\ RootBoneObject \in g_scene
  /\ g_characterMeshRef \in g_scene

-----------------------------------------------------------------------------
(* C29: teardown releases the resize listener and the render loop *)

\* C29: in the main viewer, the auto-rigger modal and the skeleton-replacer
\* modal, after teardown (the modal closed, the viewer unmounted) the resize
\* listener and the render-loop callback registered at initialisation are no
\* longer registered, so that opening and closing again and again never
\* accumulates listeners or render loops.
C29_TeardownReleases ==
  /\ (~v_mounted => v_resizeListeners = 0 /\ v_loops = 0)
  /\ (~g_isOpen => g_resizeListeners = 0 /\ g_loops = 0)
  /\ (~r_isOpen => r_resizeListeners = {} /\ r_loops = {})

-----------------------------------------------------------------------------
(* C30: the highlight of a marker and its timeout *)

\* the highlight is cleared by a step that leaves the modal open
HighlightExpires ==
  g_highlightedMarker # NoMarker /\ g_highlightedMarker' = NoMarker /\ g_isOpen'

\* C30: a highlighted marker is un-highlighted 3 seconds after the most recent
\* highlight trigger.  Triggering again cancels the pending timeout and starts
\* a new one, so at most one timeout is pending, and the one pending is that of
\* the most recent trigger; closing the modal cancels it and clears the
\* highlight; and when the highlight is cleared every marker mesh has exactly
\* its base scale.
C30_HighlightTimeout ==
  /\ [](Cardinality(g_timeouts) <= 1)
  /\ [](g_highlightedMarker # NoMarker =>
          g_timeouts = {[id |-> g_highlightTimeoutRef,
                         left |-> HighlightTimeout - g_sinceHighlight]})
  /\ [](g_highlightedMarker = NoMarker =>
          /\ g_timeouts = {}
          /\ \A id \in MarkerIds : g_markerScale[id] = BaseScale)
  /\ [](~g_isOpen => g_highlightedMarker = NoMarker)
  /\ [][HighlightExpires => g_sinceHighlight = HighlightTimeout]_vars

\* a highlight ran for its 3 seconds and was cleared in the open modal
C30_Witness ==
  /\ g_isOpen
  /\ g_currentStep = "adjust"
  /\ g_highlightedMarker = NoMarker
  /\ g_sinceHighlight = HighlightTimeout
  /\ g_highlightTimeoutRef = 0

-----------------------------------------------------------------------------
(* C31: a drag follows the model's surface *)

\* what the pointer ray of a move can meet
Hits == {"surface", "plane", "none"}

\* the markers other than the dragged one, and the dragged one's placed flag
OthersKept(dragged) ==
  /\ \A id \in MarkerIds \ {dragged} : g_markers'[id] = g_markers[id]
  /\ g_markers'[dragged].placed = g_markers[dragged].placed

\* C31: during a drag, when the pointer ray meets the model's surface the
\* dragged marker moves to the nearest point where it does, wherever the
\* projection on the virtual plane would be; the plane projection gives the
\* position only when the ray meets no surface; and nothing but the dragged
\* marker's position changes in the marker set.
C31_DragFollowsSurface ==
  [][\A hit \in Hits : \A p \in DragPoints :
       G_handleMouseMove(hit, p) =>
         /\ (hit \in {"surface", "plane"} => g_markers'[g_draggedMarkerRef].position = p)
         /\ (g_markers'[g_draggedMarkerRef].position # p => hit = "none")
         /\ OthersKept(g_draggedMarkerRef)
    ]_vars

\* the last move of a drag of the chin marker met the surface and the marker
\* is on a surface point
C31_Witness ==
  /\ g_lastMove.seq > 0
  /\ g_lastMove.marker = "chin"
  /\ g_lastMove.hit = "surface"
  /\ g_markers["chin"].position \in DragPoints
  /\ g_markers["chin"].placed

-----------------------------------------------------------------------------
(* C32: the action's time scale follows the speed input *)

\* C32: whenever the main viewer has a playback action, the action's time
\* scale is the piecewise-linear mapping of the current speed input, after
\* any sequence of speed changes, clip loads and in-place toggles.
C32_TimeScaleFollowsSpeed ==
  v_animationActionRef.present =>
    v_animationActionRef.timeScale = timeScaleOf(v_animationSpeed)

-----------------------------------------------------------------------------
(* C33: the clip played agrees with the in-place flag *)

\* C33: whenever the main viewer has a playback action and a root joint was
\* detected, the clip the action plays is the original clip without the root
\* joint's position tracks if and only if the in-place flag is on, also when
\* the flag was changed while the clip was being loaded.
C33_ClipAgreesWithInPlace ==
  (v_animationActionRef.present /\ v_rootBoneRef # NoBone) =>
    (v_animationActionRef.clip =
       createInPlaceClip(v_originalAnimationClipRef, v_rootBoneRef)) <=> v_inPlace

-----------------------------------------------------------------------------
(* C34: a retry timer left by a closed modal does nothing *)

\* C34: in the skeleton replacer, once the modal was closed a retry timer that
\* is still pending creates no scene, renderer, render loop or resize listener
\* and does not set the renderer-ready flag: every scene was created while the
\* modal was open, by the attempts of that very open, and scene, ready flag,
\* renderer, loop and listener exist only while the modal is open.
C34_StaleRetryInert ==
  /\ \A i \in 1..Len(r_created) :
       r_created[i].whileOpen /\ r_created[i].chain = r_created[i].open
  /\ (~r_isOpen =>
        /\ ~r_sceneRef
        /\ ~r_isRendererReady
        /\ r_renderers = {}
        /\ r_loops = {}
        /\ r_resizeListeners = {})

-----------------------------------------------------------------------------
(* C35: the viewer finds the root joint of a synthesized skeleton *)

\* the bones of a synthesized skeleton as a traversal meets them: the root
\* joint, whose parent is no bone, then the joints below it
SynthBones(skeleton) ==
  LET below == SelectSeq(MarkerOrder,
                         LAMBDA id : id # "groin" /\ id \in DOMAIN skeleton.joints)
  IN  << Bone(skeleton.joints["groin"].name, FALSE) >> \o
      [i \in 1..Len(below) |-> Bone(skeleton.joints[below[i]].name, TRUE)]

\* a clip that moves and turns the root joint of a synthesized skeleton
SynthRootClip ==
  Clip(<<"c">>, WalkDuration,
       << boneName("groin") \o dotPosition, boneName("groin") \o dotQuaternion >>)

\* C35: for a skeleton the synthesizer produced, with joints named mixamorig
\* plus the capitalized marker id and the root joint made from the groin
\* marker, the viewer's root-joint detection returns that root joint, and the
\* in-place clip made with it has no position track of the root joint.
C35_SynthRootDetected ==
  (g_bonesGenerated /\ g_bonesGroupRef.present) =>
    LET rootBone == V_detectRootBone(SynthBones(g_bonesGroupRef))
    IN  /\ rootBone = Bone(boneName("groin"), FALSE)
        /\ createInPlaceClip(SynthRootClip, rootBone).tracks =
             << boneName("groin") \o dotQuaternion >>

-----------------------------------------------------------------------------
(* C36: bones are generated from all 13 markers only *)

\* every joint of the tree but the root has a placed parent marker
ParentsPlaced(skeleton, markers) ==
  \A id \in DOMAIN skeleton.joints :
    skeleton.joints[id].parent # NoParent => markers[skeleton.joints[id].parent].placed

\* C36: in every state the wizard reaches through its buttons, marker
\* placements, drags and resets, bonesGenerated is true only if all 13 markers
\* are placed; handleGenerateBones never runs on a partial marker set, and the
\* tree it makes has all 13 joints, each below a placed parent.
C36_GeneratedFromAllMarkers ==
  /\ [](g_bonesGenerated => allMarkersPlaced(g_markers))
  /\ [][G_handleGenerateBones =>
          /\ \A id \in MarkerIds : g_markers[id].placed
          /\ (g_bonesGenerated' =>
                /\ DOMAIN g_bonesGroupRef'.joints = MarkerIds
                /\ ParentsPlaced(g_bonesGroupRef', g_markers'))]_vars

\* bones were generated in the wizard after the markers were placed one by one
\* and one of them was dragged
C36_Witness ==
  /\ g_bonesGenerated
  /\ g_clicks >= 13
  /\ g_lastMove.seq > 0
  /\ g_currentStep = "adjust"
  /\ DOMAIN g_bonesGroupRef.joints = MarkerIds

-----------------------------------------------------------------------------
(* C37: hasAnimation is reported only with a playback action *)

\* C37: whenever the state the main viewer reports to its parent has
\* hasAnimation true, a playback action exists; after an accepted clip was
\* replaced by a clip that is rejected or has no animations, the reported
\* hasAnimation is false.
C37_HasAnimationMeansAction ==
  animationState.hasAnimation => v_animationActionRef.present

-----------------------------------------------------------------------------
(* C38: neutral pose and root joint belong to the current model *)

\* getHasSkeleton: neutralPoseRef.current.size > 0
getHasSkeleton == Len(v_neutralPoseRef) > 0

\* the bones of the object meshRef holds
CurrentBones == { v_pose[i].bone : i \in DOMAIN v_pose }

\* C38: after any sequence of model loads of the main viewer, a load that
\* fails or is unsupported and ends in the placeholder included,
\* getHasSkeleton() is true only if the current model has bones, and the root
\* joint reference is empty or a bone of the current model.
C38_SkeletonRefsOfCurrentModel ==
  /\ getHasSkeleton => CurrentBones # {}
  /\ v_rootBoneRef = NoBone \/ v_rootBoneRef \in CurrentBones

-----------------------------------------------------------------------------
(* C39: the playing flag mirrors the action's paused flag *)

\* C39: whenever the main viewer has a playback action, isAnimationPlaying is
\* true exactly when the action is not paused, after any sequence of clip
\* loads, play/pause toggles, in-place toggles and clears.
C39_PlayingIffNotPaused ==
  v_animationActionRef.present =>
    (v_isAnimationPlaying <=> ~v_animationActionRef.paused)

\* a clip was paused and the in-place flag toggled on it: the action the
\* in-place effect made is paused and the flag says so
C39_Witness ==
  /\ v_animationActionRef.present
  /\ v_animationActionRef.made = "inPlace"
  /\ v_animationActionRef.paused
  /\ ~v_isAnimationPlaying

-----------------------------------------------------------------------------
(* C40: the translucency flag mirrors the materials' opacity *)

\* C40: in the auto-rigger modal isTranslucent is true exactly when the
\* materials of the current model are at the reduced opacity, after any
\* sequence of translucency toggles, session resets and model loads.
C40_FlagMirrorsOpacity ==
  g_characterMeshRef # NoObject => (g_isTranslucent <=> g_opacity = Translucent)

====
